---- MODULE Spec2Model ----
(***************************************************************************)
(* Event Horizon backend: the ticket inventory / booking engine.           *)
(*                                                                         *)
(* The Events, Bookings and Categories collections are functions from the  *)
(* identifiers of the stored documents to the documents.  Every HTTP       *)
(* request in flight is a "call" with a position (pc) in its handler.      *)
(*                                                                         *)
(* BookingStore.CreateBooking and BookingStore.CancelBooking run their     *)
(* callback under session.WithTransaction: the callback reads one          *)
(* snapshot, its writes are buffered until the commit, a write to a        *)
(* document that changed after the snapshot (or that another open          *)
(* transaction has written) ends the attempt with a transient error, and   *)
(* WithTransaction then runs the callback again.  Every other store call   *)
(* is a single operation on the committed state.                           *)
(***************************************************************************)
EXTENDS Integers, Sequences, FiniteSets, TLC

VARIABLES events, bookings, categories, nextBookingID, nextEventID, now, calls,
          lastBooked, reaper

vars == <<events, bookings, categories, nextBookingID, nextEventID, now, calls,
          lastBooked, reaper>>

(***************************************************************************)
(* Bounds of the model.                                                    *)
(***************************************************************************)
NumClients == 2
MaxBookings == 2
MaxQty == 2
MaxStock == 10
MaxBookQty == 6
MaxEvents == 3
MaxTime == 4
MaxCategories == 3

Clients == 1..NumClients
Users == {1, 2}

(***************************************************************************)
(* Documents.                                                              *)
(***************************************************************************)
TicketInfo(type, price, total, available) ==
    [Type |-> type, Price |-> price, TotalQuantity |-> total,
     AvailableQuantity |-> available]

Event(category, endTime, tickets) ==
    [CategoryName |-> category, EndTime |-> endTime, Tickets |-> tickets]

Booking(id, user, event, type, quantity, totalPaid, status) ==
    [ID |-> id, UserID |-> user, EventID |-> event, TicketType |-> type,
     Quantity |-> quantity, TotalPaid |-> totalPaid, Status |-> status]

\* The zero ObjectID: the value of an ID field that was never set.
NilObjectID == 0

NoBooking == Booking(NilObjectID, 0, NilObjectID, "", 0, 0, "")

\* The ticket type labels a request can carry, and those events are built of.
RequestTypes == {"VIP", "Regular", "Student"}

(***************************************************************************)
(* Identifiers on the wire are hex strings; bson.ObjectIDFromHex parses    *)
(* them and rejects a malformed one.                                       *)
(***************************************************************************)
Hex(id) == <<"oid", id>>
BadHex == <<"zz">>

ObjectIDFromHex(s) ==
    IF Len(s) = 2 /\ s[1] = "oid" THEN [ok |-> TRUE, id |-> s[2]]
    ELSE [ok |-> FALSE, id |-> NilObjectID]

(***************************************************************************)
(* Errors of the store and HTTP statuses of the controllers.               *)
(***************************************************************************)
ErrNone == "ok"
ErrEventNotFound == "event not found"
ErrTicketTypeNotFound == "ticket type not found for this event"
ErrNotEnoughTickets == "not enough tickets available"
ErrBookingNotFound == "booking not found"
ErrAlreadyCancelled == "booking already cancelled"
ErrInvalidBookingID == "invalid booking id"
ErrInternal == "internal"
ErrDeleteBookings == "failed to delete associated bookings"
ErrCategoryNotFound == "category not found"
ErrCategoryHasEvents == "cannot delete category with existing events"
ErrDeleteEvents == "failed to delete events"
ErrCategoryExists == "category with the same name already exists"

StatusOK == 200
StatusCreated == 201
StatusBadRequest == 400
StatusUnauthorized == 401
StatusForbidden == 403
StatusNotFound == 404
StatusInternalServerError == 500

(***************************************************************************)
(* Collections.                                                            *)
(***************************************************************************)
\* A deletion that deletes nothing.
Keep(coll, ids) == coll

\* DeleteOne / DeleteMany: the documents of ids are gone.
Remove(coll, ids) == [k \in DOMAIN coll \ ids |-> coll[k]]

Put(coll, id, doc) == [k \in DOMAIN coll \cup {id} |-> IF k = id THEN doc ELSE coll[k]]

EventKey(id) == <<"Events", id>>
BookingKey(id) == <<"Bookings", id>>

\* "$set": {"tickets.<i>.available_quantity": v} on the tickets array.
\* A $set that writes the quantity to every ticket class of the event.
SetEveryAvailable(tickets, i, v) ==
    [j \in DOMAIN tickets |-> [tickets[j] EXCEPT !.AvailableQuantity = v]]

SetAvailable(tickets, i, v) ==
    IF i \in 1..Len(tickets)
    THEN [tickets EXCEPT ![i].AvailableQuantity = v]
    ELSE tickets

(***************************************************************************)
(* Calls.  One record per client: the request, the handler's locals, and   *)
(* the state of the transaction the handler has open.                      *)
(*   booking    the models.Booking the handler holds (CreateBooking passes *)
(*              it by pointer, so it survives a re-run of the callback)    *)
(*   wIns/wSet/wDel  the writes the open transaction has buffered          *)
(*   stale      the documents written by others since the snapshot         *)
(*   rerun      WithTransaction has run the callback more than once        *)
(*   name       the name of the category a deletion has read               *)
(*   findName   the name getEventsByCategory has read                      *)
(*   todo       the events a cascade has found and not yet handled         *)
(***************************************************************************)
NoSet == [e |-> NilObjectID, i |-> 0, v |-> 0]

\* The collections as a call found them when it began (kept by the cascading
\* deletions only).
NoPre == [events |-> <<>>, bookings |-> <<>>, categories |-> <<>>]

\* A slice of bookings as a read returns it: nil, or with its items.
NilSlice == [isNil |-> TRUE, items |-> <<>>]
Slice(items) == [isNil |-> FALSE, items |-> items]

IdleCall ==
    [op |-> "none", pc |-> "idle", user |-> 0, result |-> NilSlice,
     reqEvent |-> BadHex, reqBooking |-> BadHex, reqType |-> "", reqQty |-> 0,
     reqDoc |-> Event("", 0, <<>>), reqCategory |-> BadHex,
     booking |-> NoBooking, ticketIndex |-> 0, selAvail |-> 0,
     wIns |-> NoBooking, wSet |-> NoSet, wDel |-> NilObjectID,
     inTxn |-> FALSE, stale |-> {}, rerun |-> FALSE,
     name |-> "", findName |-> "", todo |-> <<>>, pre |-> NoPre,
     err |-> ErrNone, status |-> 0]

\* lastBooked: the id the most recent successful CreateBooking answered with,
\* and the Events collection as it was before that booking, for as long as
\* nothing else has changed the store since; cancelled once a CancelBooking of
\* that id has committed as the very next change of the store.
NoneBooked == [id |-> NilObjectID, before |-> <<>>, cancelled |-> FALSE]

\* The cleanup goroutine of StartEventCleanupScheduler:
\*   pc       "startup", "waiting" for a tick, or inside a sweep
\*   pending  ticks in the ticker's channel (it holds one)
\*   ticks    ticks the ticker has delivered, sweeps the sweeps begun
\*   cutoff   the time.Now() of the sweep's filter, todo the events it found
\*   count    what the last sweep returned, err its error
ReaperAtStart ==
    [pc |-> "startup", pending |-> 0, ticks |-> 0, sweeps |-> 0, failed |-> 0,
     cutoff |-> 0, todo |-> <<>>, count |-> 0, err |-> ErrNone]

Ready(c) == calls[c].pc \in {"idle", "done"}

\* The handler returns: the request, the handler's locals and its transaction
\* are gone.  What stays is the answer: the store's error, the HTTP status,
\* the booking a 201 answer describes (else only the id the handler held), and
\* the quantity that was asked for.
Finish(call, err, status) ==
    [IdleCall EXCEPT !.op = call.op, !.pc = "done", !.err = err, !.status = status,
                     !.reqQty = call.reqQty, !.rerun = call.rerun,
                     !.pre = call.pre,
                     !.booking = IF call.op = "CreateBooking" /\ status = StatusCreated
                                 THEN call.booking
                                 ELSE [NoBooking EXCEPT !.ID = call.booking.ID]]

\* The documents an open transaction has written and not yet committed.
Locks(call) ==
    (IF call.wSet # NoSet THEN {EventKey(call.wSet.e)} ELSE {})
    \cup (IF call.wDel # NilObjectID THEN {BookingKey(call.wDel)} ELSE {})

LockedByOther(c, key) == \E d \in Clients \ {c} : key \in Locks(calls[d])

Locked(key) == \E d \in Clients : key \in Locks(calls[d])

\* A store without isolation between transactions: no write ever conflicts.
NoIsolation(c, key) == FALSE

\* A write inside a transaction fails with a write conflict (a transient
\* transaction error) when the document changed after the snapshot or another
\* open transaction has written it.
WriteConflict(c, key) == key \in calls[c].stale \/ LockedByOther(c, key)

\* A committed write of `keys` by call c (or by no call: c = 0) makes those
\* documents newer than the snapshot of every other open transaction.
MarkStale(cs, c, keys) ==
    [d \in Clients |->
        IF d # c /\ cs[d].inTxn THEN [cs[d] EXCEPT !.stale = @ \cup keys]
        ELSE cs[d]]

\* A transaction helper that gives up on a transient error.
NoRetry(call) == Finish(call, ErrInternal, StatusInternalServerError)

\* WithTransaction aborts the attempt and runs the callback again.
Retry(call) ==
    [call EXCEPT !.pc = "find", !.ticketIndex = 0, !.selAvail = 0,
                 !.wIns = NoBooking, !.wSet = NoSet, !.wDel = NilObjectID,
                 !.inTxn = FALSE, !.stale = {}, !.rerun = TRUE]

\* An abort that leaves the inserted Booking behind.
AbortKeepsInsert(call) ==
    IF call.wIns # NoBooking THEN Put(bookings, call.wIns.ID, call.wIns)
    ELSE bookings

\* AbortTransaction: what the callback wrote is dropped.
AbortedBookings(call) == bookings

\* A cancellation that keeps the Booking and marks it "cancelled".
SoftDeletedBookings(call) ==
    LET put == IF call.wIns # NoBooking THEN Put(bookings, call.wIns.ID, call.wIns)
               ELSE bookings
    IN  IF call.wDel \in DOMAIN put
        THEN [put EXCEPT ![call.wDel].Status = "cancelled"]
        ELSE put

\* CommitTransaction: the buffered writes land together.
CommittedBookings(call) ==
    Remove(IF call.wIns # NoBooking THEN Put(bookings, call.wIns.ID, call.wIns)
           ELSE bookings,
           IF call.wDel # NilObjectID THEN {call.wDel} ELSE {})

CommittedEvents(call) ==
    IF call.wSet # NoSet /\ call.wSet.e \in DOMAIN events
    THEN [events EXCEPT ![call.wSet.e].Tickets =
              SetAvailable(@, call.wSet.i, call.wSet.v)]
    ELSE events

(***************************************************************************)
(* BookingController.CreateBooking and BookingStore.CreateBooking.         *)
(***************************************************************************)
\* A controller that lets every quantity through.
QuantityUnchecked(q) == FALSE

\* The controller's own check of the requested quantity.
QuantityRejected(q) == q <= 0

\* A scan that falls back on the first ticket class when none has the type.
FirstMatchOrFirst(tickets, type) ==
    IF \E i \in 1..Len(tickets) : tickets[i].Type = type
    THEN CHOOSE i \in 1..Len(tickets) :
            /\ tickets[i].Type = type
            /\ \A j \in 1..(i - 1) : tickets[j].Type # type
    ELSE IF Len(tickets) > 0 THEN 1 ELSE 0

\* A scan that goes on to the last ticket class of the type.
LastMatch(tickets, type) ==
    IF \E i \in 1..Len(tickets) : tickets[i].Type = type
    THEN CHOOSE i \in 1..Len(tickets) :
            /\ tickets[i].Type = type
            /\ \A j \in (i + 1)..Len(tickets) : tickets[j].Type # type
    ELSE 0

\* The scan of event.Tickets: the position of the first ticket class of the
\* type (from 1; the source counts from 0), or 0 when selectedTicket stays nil.
FirstMatch(tickets, type) ==
    IF \E i \in 1..Len(tickets) : tickets[i].Type = type
    THEN CHOOSE i \in 1..Len(tickets) :
            /\ tickets[i].Type = type
            /\ \A j \in 1..(i - 1) : tickets[j].Type # type
    ELSE 0

\* An availability check that also refuses the last tickets.
NotEnoughOrEqual(available, quantity) == available <= quantity

\* selectedTicket.AvailableQuantity < booking.Quantity
NotEnough(available, quantity) == available < quantity

\* A total that forgets the quantity.
UnitPrice(price, quantity) == price

\* booking.TotalPaid = selectedTicket.Price * float64(booking.Quantity)
TotalPaid(price, quantity) == price * quantity

\* Create calls in flight that have not drawn their booking id yet.
PendingIDs ==
    Cardinality({d \in Clients : /\ calls[d].op = "CreateBooking"
                                 /\ calls[d].pc \notin {"idle", "done"}
                                 /\ calls[d].booking.ID = NilObjectID})

HandleCreateBooking(c, user, eventHex, type, qty) ==
    /\ Ready(c)
    /\ nextBookingID + PendingIDs <= MaxBookings
    /\ LET req == [IdleCall EXCEPT !.op = "CreateBooking", !.user = user,
                                   !.reqEvent = eventHex, !.reqType = type,
                                   !.reqQty = qty]
           parsed == ObjectIDFromHex(eventHex)
       IN  calls' = [calls EXCEPT ![c] =
             IF QuantityRejected(qty) THEN Finish(req, ErrNone, StatusBadRequest)
             ELSE IF user = 0 THEN Finish(req, ErrNone, StatusUnauthorized)
             ELSE IF ~parsed.ok THEN Finish(req, ErrNone, StatusBadRequest)
             ELSE IF parsed.id \notin DOMAIN events
                  THEN Finish(req, ErrNone, StatusNotFound)
             ELSE [req EXCEPT !.pc = "find",
                              !.booking = Booking(NilObjectID, user, parsed.id,
                                                  type, qty, 0, "confirmed")]]
    /\ UNCHANGED <<events, bookings, categories, nextBookingID, nextEventID, now, lastBooked, reaper>>

CreateBooking_FindEvent(c) ==
    /\ calls[c].op = "CreateBooking"
    /\ calls[c].pc = "find"
    /\ LET call == calls[c]
           id == call.booking.EventID
           idx == FirstMatch(events[id].Tickets, call.booking.TicketType)
           sel == events[id].Tickets[idx]
       IN  calls' = [calls EXCEPT ![c] =
             IF id \notin DOMAIN events
             THEN Finish(call, ErrEventNotFound, StatusInternalServerError)
             ELSE IF idx = 0
             THEN Finish(call, ErrTicketTypeNotFound, StatusInternalServerError)
             ELSE IF NotEnough(sel.AvailableQuantity, call.booking.Quantity)
             THEN Finish(call, ErrNotEnoughTickets, StatusInternalServerError)
             ELSE [call EXCEPT !.pc = "insert", !.inTxn = TRUE,
                               !.ticketIndex = idx,
                               !.selAvail = sel.AvailableQuantity,
                               !.booking.TotalPaid = TotalPaid(sel.Price,
                                                              call.booking.Quantity),
                               !.booking.Status = "confirmed"]]
    /\ UNCHANGED <<events, bookings, categories, nextBookingID, nextEventID, now, lastBooked, reaper>>

CreateBooking_InsertOne(c) ==
    /\ calls[c].op = "CreateBooking"
    /\ calls[c].pc = "insert"
    /\ LET call == calls[c]
           fresh == call.booking.ID = NilObjectID
           doc == [call.booking EXCEPT !.ID = IF fresh THEN nextBookingID ELSE @]
       IN  /\ calls' = [calls EXCEPT ![c] =
                 [call EXCEPT !.pc = "update", !.booking = doc, !.wIns = doc]]
           /\ nextBookingID' = IF fresh THEN nextBookingID + 1 ELSE nextBookingID
    /\ UNCHANGED <<events, bookings, categories, nextEventID, now, lastBooked, reaper>>

\* newAvailableQuantity: what is left of the selected class once the
\* booking's quantity is taken from the stock that the transaction read.
TakenOne(available, quantity) == available - 1

Taken(available, quantity) == available - quantity

CreateBooking_UpdateOne(c) ==
    /\ calls[c].op = "CreateBooking"
    /\ calls[c].pc = "update"
    /\ LET call == calls[c]
           id == call.booking.EventID
       IN  calls' = [calls EXCEPT ![c] =
             IF WriteConflict(c, EventKey(id)) THEN Retry(call)
             ELSE [call EXCEPT !.pc = "commit",
                               !.wSet = [e |-> id, i |-> call.ticketIndex,
                                         v |-> Taken(call.selAvail, call.booking.Quantity)]]]
    /\ UNCHANGED <<events, bookings, categories, nextBookingID, nextEventID, now, lastBooked, reaper>>

\* BookingStore.CreateBooking called with a booking of the caller's making:
\* whatever it carries as status and total, the callback sets both.
CallCreateBooking(c, booking) ==
    /\ Ready(c)
    /\ nextBookingID + PendingIDs <= MaxBookings
    /\ calls' = [calls EXCEPT ![c] =
                   [IdleCall EXCEPT !.op = "CreateBooking", !.pc = "find",
                                    !.user = booking.UserID,
                                    !.reqType = booking.TicketType,
                                    !.reqQty = booking.Quantity,
                                    !.booking = booking]]
    /\ UNCHANGED <<events, bookings, categories, nextBookingID, nextEventID, now, lastBooked, reaper>>

\* session.WithTransaction commits what the callback wrote, and the handler
\* answers.
CommitTransaction(c) ==
    /\ calls[c].op \in {"CreateBooking", "CancelBooking"}
    /\ calls[c].pc = "commit"
    /\ bookings' = CommittedBookings(calls[c])
    /\ events' = CommittedEvents(calls[c])
    /\ calls' = MarkStale(
                   [calls EXCEPT ![c] =
                      Finish(@, ErrNone,
                             IF @.op = "CreateBooking" THEN StatusCreated
                             ELSE StatusOK)],
                   c,
                   Locks(calls[c])
                     \cup (IF calls[c].wIns # NoBooking
                           THEN {BookingKey(calls[c].wIns.ID)} ELSE {}))
    /\ lastBooked' = IF calls[c].op = "CreateBooking"
                     THEN [id |-> calls[c].wIns.ID, before |-> events,
                           cancelled |-> FALSE]
                     ELSE IF /\ lastBooked.id # NilObjectID
                             /\ ~lastBooked.cancelled
                             /\ calls[c].wDel = lastBooked.id
                     THEN [lastBooked EXCEPT !.cancelled = TRUE]
                     ELSE NoneBooked
    /\ UNCHANGED <<categories, nextBookingID, nextEventID, now, reaper>>

\* A store operation inside the callback returns an error that is not
\* transient: the callback returns it, WithTransaction aborts the transaction
\* and the handler answers 500.
StoreFault(c) ==
    /\ calls[c].op \in {"CreateBooking", "CancelBooking"}
    /\ calls[c].pc \in {"find", "insert", "update", "restore", "delete"}
    /\ calls' = [calls EXCEPT ![c] =
                   Finish(@, ErrInternal, StatusInternalServerError)]
    /\ bookings' = AbortedBookings(calls[c])
    /\ lastBooked' = IF bookings' = bookings THEN lastBooked ELSE NoneBooked
    /\ UNCHANGED <<events, categories, nextBookingID, nextEventID, now, reaper>>

(***************************************************************************)
(* BookingStore.GetBookingByID, BookingController.CancelBooking and        *)
(* BookingStore.CancelBooking.                                             *)
(***************************************************************************)
FindBooking(collection, bookingHex) ==
    LET parsed == ObjectIDFromHex(bookingHex)
    IN  IF ~parsed.ok THEN [err |-> ErrInvalidBookingID, booking |-> NoBooking]
        ELSE IF parsed.id \notin DOMAIN collection
        THEN [err |-> ErrBookingNotFound, booking |-> NoBooking]
        ELSE [err |-> ErrNone, booking |-> collection[parsed.id]]

GetBookingByID(bookingHex) == FindBooking(bookings, bookingHex)

\* A cancellation that gives nothing back.
Unrestored(available, quantity) == available

\* newAvailableQuantity of the cancellation.
Restored(available, quantity) == available + quantity

\* A handler that lets every authenticated user cancel.
AnyoneMayCancel(booking, user) == FALSE

\* booking.UserID.Hex() != userID
NotOwner(booking, user) == booking.UserID # user

HandleCancelBooking(c, user, bookingHex) ==
    /\ Ready(c)
    /\ LET req == [IdleCall EXCEPT !.op = "CancelBooking", !.user = user,
                                   !.reqBooking = bookingHex]
           parsed == ObjectIDFromHex(bookingHex)
           got == GetBookingByID(bookingHex)
       IN  calls' = [calls EXCEPT ![c] =
             IF ~parsed.ok THEN Finish(req, ErrNone, StatusBadRequest)
             ELSE IF user = 0 THEN Finish(req, ErrNone, StatusUnauthorized)
             ELSE IF got.err # ErrNone THEN Finish(req, ErrNone, StatusNotFound)
             ELSE IF NotOwner(got.booking, user)
                  THEN Finish(req, ErrNone, StatusForbidden)
             ELSE [req EXCEPT !.pc = "find", !.booking.ID = parsed.id]]
    /\ UNCHANGED <<events, bookings, categories, nextBookingID, nextEventID, now, lastBooked, reaper>>

\* An orphan that cannot be cancelled.
OrphanFails(call, booking) ==
    Finish(call, ErrEventNotFound, StatusInternalServerError)

\* The event of the booking is gone: the callback deletes the booking without
\* restoring any tickets.
OrphanCleanup(call, booking) ==
    [call EXCEPT !.pc = "delete", !.inTxn = TRUE, !.booking = booking]

\* A cancellation that fails when the event has no ticket class of the type.
TypeGoneFails(call, booking) ==
    Finish(call, ErrTicketTypeNotFound, StatusInternalServerError)

\* found stays false: the callback goes on to delete the booking.
TypeGone(call, booking) ==
    [call EXCEPT !.pc = "delete", !.inTxn = TRUE, !.booking = booking]

\* The two reads of the callback; both see the snapshot the first one takes.
CancelBooking_Find(c) ==
    /\ calls[c].op = "CancelBooking"
    /\ calls[c].pc = "find"
    /\ LET call == calls[c]
           id == call.booking.ID
           booking == bookings[id]
           event == events[booking.EventID]
           idx == FirstMatch(event.Tickets, booking.TicketType)
       IN  calls' = [calls EXCEPT ![c] =
             IF id \notin DOMAIN bookings
             THEN Finish(call, ErrBookingNotFound, StatusInternalServerError)
             ELSE IF booking.Status = "cancelled"
             THEN Finish(call, ErrAlreadyCancelled, StatusInternalServerError)
             ELSE IF booking.EventID \notin DOMAIN events
             THEN OrphanCleanup(call, booking)
             ELSE IF idx # 0
             THEN [call EXCEPT !.pc = "restore", !.inTxn = TRUE,
                               !.booking = booking, !.ticketIndex = idx,
                               !.selAvail = event.Tickets[idx].AvailableQuantity]
             ELSE TypeGone(call, booking)]
    /\ UNCHANGED <<events, bookings, categories, nextBookingID, nextEventID, now, lastBooked, reaper>>

CancelBooking_UpdateOne(c) ==
    /\ calls[c].op = "CancelBooking"
    /\ calls[c].pc = "restore"
    /\ LET call == calls[c]
           id == call.booking.EventID
       IN  calls' = [calls EXCEPT ![c] =
             IF WriteConflict(c, EventKey(id)) THEN Retry(call)
             ELSE [call EXCEPT !.pc = "delete",
                               !.wSet = [e |-> id, i |-> call.ticketIndex,
                                         v |-> Restored(call.selAvail,
                                                        call.booking.Quantity)]]]
    /\ UNCHANGED <<events, bookings, categories, nextBookingID, nextEventID, now, lastBooked, reaper>>

CancelBooking_DeleteOne(c) ==
    /\ calls[c].op = "CancelBooking"
    /\ calls[c].pc = "delete"
    /\ LET call == calls[c]
       IN  calls' = [calls EXCEPT ![c] =
             IF WriteConflict(c, BookingKey(call.booking.ID)) THEN Retry(call)
             ELSE [call EXCEPT !.pc = "commit", !.wDel = call.booking.ID]]
    /\ UNCHANGED <<events, bookings, categories, nextBookingID, nextEventID, now, lastBooked, reaper>>

(***************************************************************************)
(* CategoryStore.GetCategoryByName: an anchored, case-insensitive match.   *)
(***************************************************************************)
CategoryNames == {"Music", "music", "Tech"}

Lower(name) == IF name = "Music" THEN "music"
               ELSE IF name = "Tech" THEN "tech"
               ELSE name

CategoryByNameExists(name) ==
    \E k \in DOMAIN categories : Lower(categories[k].Name) = Lower(name)

(***************************************************************************)
(* EventController.DeleteEvent and EventStore.DeleteEvent, with            *)
(* BookingStore.DeleteBookingsByEventID.  Outside a transaction a write    *)
(* waits for the open transaction that has written the same document.      *)
(***************************************************************************)
\* A filter that matches no booking.
NoBookingsOfEvent(id) == {}

\* filter {"event_id": eventID}
BookingsOfEvent(id) == {b \in DOMAIN bookings : bookings[b].EventID = id}

\* The event of that id and the bookings that reference it, as a DeleteEvent
\* call finds them when it begins.
FoundAtStart(id) ==
    [events |-> [e \in DOMAIN events \cap {id} |-> events[e]],
     bookings |-> [b \in BookingsOfEvent(id) |-> bookings[b]],
     categories |-> <<>>]

HandleDeleteEvent(c, eventHex) ==
    /\ Ready(c)
    /\ LET req == [IdleCall EXCEPT !.op = "DeleteEvent", !.reqEvent = eventHex]
           parsed == ObjectIDFromHex(eventHex)
       IN  calls' = [calls EXCEPT ![c] =
             IF ~parsed.ok \/ parsed.id \notin DOMAIN events
             THEN Finish(req, ErrNone, StatusNotFound)
             ELSE [req EXCEPT !.pc = "deleteBookings",
                              !.pre = FoundAtStart(parsed.id)]]
    /\ UNCHANGED <<events, bookings, categories, nextBookingID, nextEventID, now, lastBooked, reaper>>

\* EventStore.DeleteEvent called with an id, whether an event has it or not.
CallDeleteEvent(c, id) ==
    /\ Ready(c)
    /\ calls' = [calls EXCEPT ![c] =
                   [IdleCall EXCEPT !.op = "DeleteEvent", !.pc = "deleteBookings",
                                    !.reqEvent = Hex(id),
                                    !.pre = FoundAtStart(id)]]
    /\ UNCHANGED <<events, bookings, categories, nextBookingID, nextEventID, now, lastBooked, reaper>>

DeleteEvent_Bookings(c) ==
    /\ calls[c].op = "DeleteEvent"
    /\ calls[c].pc = "deleteBookings"
    /\ LET id == ObjectIDFromHex(calls[c].reqEvent).id
           gone == BookingsOfEvent(id)
       IN  /\ \A b \in gone : ~Locked(BookingKey(b))
           /\ bookings' = Remove(bookings, gone)
           /\ calls' = MarkStale([calls EXCEPT ![c].pc = "deleteEvent"], c,
                                 {BookingKey(b) : b \in gone})
           /\ lastBooked' = IF gone = {} THEN lastBooked ELSE NoneBooked
    /\ UNCHANGED <<events, categories, nextBookingID, nextEventID, now, reaper>>

DeleteEvent_BookingsFail(c) ==
    /\ calls[c].op = "DeleteEvent"
    /\ calls[c].pc = "deleteBookings"
    /\ calls' = [calls EXCEPT ![c] =
                   Finish(@, ErrDeleteBookings, StatusInternalServerError)]
    /\ UNCHANGED <<events, bookings, categories, nextBookingID, nextEventID, now, lastBooked, reaper>>

\* A DeleteOne that reports one document deleted whether it matched or not.
DeletedOne(id) == 1

\* result.DeletedCount of DeleteOne({"_id": id}) on the events collection.
DeletedCount(id) == Cardinality(DOMAIN events \cap {id})

DeleteEvent_Event(c) ==
    /\ calls[c].op = "DeleteEvent"
    /\ calls[c].pc = "deleteEvent"
    /\ LET id == ObjectIDFromHex(calls[c].reqEvent).id
       IN  /\ ~Locked(EventKey(id))
           /\ events' = Remove(events, {id})
           /\ calls' = MarkStale(
                         [calls EXCEPT ![c] =
                            IF DeletedCount(id) = 0
                            THEN Finish(@, ErrEventNotFound,
                                        StatusInternalServerError)
                            ELSE Finish(@, ErrNone, StatusOK)],
                         c, {EventKey(id)} \cap {EventKey(e) : e \in DOMAIN events})
           /\ lastBooked' = IF id \in DOMAIN events THEN NoneBooked ELSE lastBooked
    /\ UNCHANGED <<bookings, categories, nextBookingID, nextEventID, now, reaper>>

\* DeleteOne of the event returns an error: DeleteEvent returns it, with the
\* bookings already deleted.
DeleteEvent_EventFail(c) ==
    /\ calls[c].op = "DeleteEvent"
    /\ calls[c].pc = "deleteEvent"
    /\ calls' = [calls EXCEPT ![c] =
                   Finish(@, ErrInternal, StatusInternalServerError)]
    /\ UNCHANGED <<events, bookings, categories, nextBookingID, nextEventID, now, lastBooked, reaper>>

(***************************************************************************)
(* EventController.UpdateEvent and EventStore.UpdateEvent: the stored      *)
(* event takes the category, the times and the whole tickets array of the  *)
(* request body.                                                           *)
(***************************************************************************)
HandleUpdateEvent(c, eventHex, doc) ==
    /\ Ready(c)
    /\ LET req == [IdleCall EXCEPT !.op = "UpdateEvent", !.reqEvent = eventHex,
                                   !.reqDoc = doc]
           parsed == ObjectIDFromHex(eventHex)
       IN  calls' = [calls EXCEPT ![c] =
             IF ~parsed.ok \/ parsed.id \notin DOMAIN events
             THEN Finish(req, ErrNone, StatusNotFound)
             ELSE IF doc.CategoryName = ""
             THEN Finish(req, ErrNone, StatusBadRequest)
             ELSE [req EXCEPT !.pc = "updateEvent"]]
    /\ UNCHANGED <<events, bookings, categories, nextBookingID, nextEventID, now, lastBooked, reaper>>

UpdateEvent_Store(c) ==
    /\ calls[c].op = "UpdateEvent"
    /\ calls[c].pc = "updateEvent"
    /\ LET id == ObjectIDFromHex(calls[c].reqEvent).id
           doc == calls[c].reqDoc
       IN  IF ~CategoryByNameExists(doc.CategoryName)
           THEN /\ calls' = [calls EXCEPT ![c] =
                       Finish(@, ErrCategoryNotFound, StatusInternalServerError)]
                /\ UNCHANGED <<events, lastBooked>>
           ELSE IF id \notin DOMAIN events
           THEN /\ calls' = [calls EXCEPT ![c] =
                       Finish(@, ErrEventNotFound, StatusInternalServerError)]
                /\ UNCHANGED <<events, lastBooked>>
           ELSE /\ ~Locked(EventKey(id))
                /\ events' = [events EXCEPT ![id] = doc]
                /\ lastBooked' = NoneBooked
                /\ calls' = MarkStale(
                              [calls EXCEPT ![c] = Finish(@, ErrNone, StatusOK)],
                              c, {EventKey(id)})
    /\ UNCHANGED <<bookings, categories, nextBookingID, nextEventID, now, reaper>>

(***************************************************************************)
(* EventController.CreateEvent and EventStore.CreateEvent.  The store      *)
(* looks the category up by name, looks for an event of the same name      *)
(* (every request here names a new event, so it finds none) and inserts.   *)
(* The date and time checks of the controller pass.                        *)
(***************************************************************************)
CreatingEvents ==
    Cardinality({d \in Clients : /\ calls[d].op = "CreateEvent"
                                 /\ calls[d].pc \notin {"idle", "done"}})

HandleCreateEvent(c, doc) ==
    /\ Ready(c)
    /\ nextEventID + CreatingEvents <= MaxEvents
    /\ LET req == [IdleCall EXCEPT !.op = "CreateEvent", !.reqDoc = doc]
       IN  calls' = [calls EXCEPT ![c] =
             IF doc.CategoryName = ""
             THEN Finish(req, ErrNone, StatusBadRequest)
             ELSE [req EXCEPT !.pc = "checkCategory"]]
    /\ UNCHANGED <<events, bookings, categories, nextBookingID, nextEventID, now, lastBooked, reaper>>

CreateEvent_GetCategoryByName(c) ==
    /\ calls[c].op = "CreateEvent"
    /\ calls[c].pc = "checkCategory"
    /\ calls' = [calls EXCEPT ![c] =
                   IF CategoryByNameExists(@.reqDoc.CategoryName)
                   THEN [@ EXCEPT !.pc = "insertEvent"]
                   ELSE Finish(@, ErrCategoryNotFound, StatusInternalServerError)]
    /\ UNCHANGED <<events, bookings, categories, nextBookingID, nextEventID, now, lastBooked, reaper>>

CreateEvent_InsertOne(c) ==
    /\ calls[c].op = "CreateEvent"
    /\ calls[c].pc = "insertEvent"
    /\ events' = Put(events, nextEventID, calls[c].reqDoc)
    /\ nextEventID' = nextEventID + 1
    /\ calls' = [calls EXCEPT ![c] = Finish(@, ErrNone, StatusCreated)]
    /\ lastBooked' = NoneBooked
    /\ UNCHANGED <<bookings, categories, nextBookingID, now, reaper>>

(***************************************************************************)
(* CategoryStore.DeleteCategory (no controller calls it): it reads the     *)
(* category, counts the events of its name, and deletes the category.      *)
(* A call of the store has no HTTP status.                                 *)
(***************************************************************************)
\* A filter on the category name that ignores case.
EventsOfCategoryAnyCase(name) ==
    {e \in DOMAIN events : Lower(events[e].CategoryName) = Lower(name)}

\* filter {"category_name": name}: an exact match.
EventsOfCategory(name) == {e \in DOMAIN events : events[e].CategoryName = name}

CallDeleteCategory(c, id) ==
    /\ Ready(c)
    /\ calls' = [calls EXCEPT ![c] =
                   [IdleCall EXCEPT !.op = "DeleteCategory", !.pc = "getCategory",
                                    !.reqCategory = Hex(id)]]
    /\ UNCHANGED <<events, bookings, categories, nextBookingID, nextEventID, now, lastBooked, reaper>>

DeleteCategory_GetCategoryByID(c) ==
    /\ calls[c].op = "DeleteCategory"
    /\ calls[c].pc = "getCategory"
    /\ LET id == ObjectIDFromHex(calls[c].reqCategory).id
       IN  calls' = [calls EXCEPT ![c] =
             IF id \in DOMAIN categories
             THEN [@ EXCEPT !.pc = "countEvents", !.name = categories[id].Name]
             ELSE Finish(@, ErrCategoryNotFound, 0)]
    /\ UNCHANGED <<events, bookings, categories, nextBookingID, nextEventID, now, lastBooked, reaper>>

DeleteCategory_CountDocuments(c) ==
    /\ calls[c].op = "DeleteCategory"
    /\ calls[c].pc = "countEvents"
    /\ calls' = [calls EXCEPT ![c] =
                   IF Cardinality(EventsOfCategory(@.name)) > 0
                   THEN Finish(@, ErrCategoryHasEvents, 0)
                   ELSE [@ EXCEPT !.pc = "deleteCategory"]]
    /\ UNCHANGED <<events, bookings, categories, nextBookingID, nextEventID, now, lastBooked, reaper>>

DeleteCategory_DeleteOne(c) ==
    /\ calls[c].op = "DeleteCategory"
    /\ calls[c].pc = "deleteCategory"
    /\ LET id == ObjectIDFromHex(calls[c].reqCategory).id
       IN  /\ categories' = Remove(categories, {id})
           /\ calls' = [calls EXCEPT ![c] =
                 IF id \in DOMAIN categories
                 THEN Finish(@, ErrNone, 0)
                 ELSE Finish(@, ErrCategoryNotFound, 0)]
    /\ UNCHANGED <<events, bookings, nextBookingID, nextEventID, now, lastBooked, reaper>>

(***************************************************************************)
(* CategoryController.DeleteCategory and                                   *)
(* CategoryStore.DeleteCategoryWithCascade: every store operation is a     *)
(* step of its own; the controller answers 400 for every error.            *)
(***************************************************************************)
\* The documents of a cursor, in the order of their ids.
RECURSIVE Ascending(_)
Ascending(S) ==
    IF S = {} THEN <<>>
    ELSE LET least == CHOOSE x \in S : \A y \in S : x <= y
         IN  <<least>> \o Ascending(S \ {least})

Snapshot == [events |-> events, bookings |-> bookings, categories |-> categories]

HandleDeleteCategory(c, categoryHex) ==
    /\ Ready(c)
    /\ LET req == [IdleCall EXCEPT !.op = "DeleteCategoryWithCascade",
                                   !.reqCategory = categoryHex]
       IN  calls' = [calls EXCEPT ![c] =
             IF ~ObjectIDFromHex(categoryHex).ok
             THEN Finish(req, ErrNone, StatusBadRequest)
             ELSE [req EXCEPT !.pc = "cascadeGet", !.pre = Snapshot]]
    /\ UNCHANGED <<events, bookings, categories, nextBookingID, nextEventID, now, lastBooked, reaper>>

Cascade_GetCategoryByID(c) ==
    /\ calls[c].op = "DeleteCategoryWithCascade"
    /\ calls[c].pc = "cascadeGet"
    /\ LET id == ObjectIDFromHex(calls[c].reqCategory).id
       IN  calls' = [calls EXCEPT ![c] =
             IF id \in DOMAIN categories
             THEN [@ EXCEPT !.pc = "cascadeGetAgain", !.name = categories[id].Name]
             ELSE Finish(@, ErrCategoryNotFound, StatusBadRequest)]
    /\ UNCHANGED <<events, bookings, categories, nextBookingID, nextEventID, now, lastBooked, reaper>>

\* getEventsByCategory reads the category again ...
Cascade_GetEventsByCategory(c) ==
    /\ calls[c].op = "DeleteCategoryWithCascade"
    /\ calls[c].pc = "cascadeGetAgain"
    /\ LET id == ObjectIDFromHex(calls[c].reqCategory).id
       IN  calls' = [calls EXCEPT ![c] =
             IF id \in DOMAIN categories
             THEN [@ EXCEPT !.pc = "cascadeFind", !.findName = categories[id].Name]
             ELSE Finish(@, ErrCategoryNotFound, StatusBadRequest)]
    /\ UNCHANGED <<events, bookings, categories, nextBookingID, nextEventID, now, lastBooked, reaper>>

\* ... and finds the events of its name.
Cascade_FindEvents(c) ==
    /\ calls[c].op = "DeleteCategoryWithCascade"
    /\ calls[c].pc = "cascadeFind"
    /\ LET found == Ascending(EventsOfCategory(calls[c].findName))
       IN  calls' = [calls EXCEPT ![c] =
             [@ EXCEPT !.todo = found,
                       !.pc = IF found = <<>> THEN "cascadeEvents"
                              ELSE "cascadeBookings"]]
    /\ UNCHANGED <<events, bookings, categories, nextBookingID, nextEventID, now, lastBooked, reaper>>

\* One turn of the loop: DeleteBookingsByEventID of the next event found.
Cascade_DeleteBookings(c) ==
    /\ calls[c].op = "DeleteCategoryWithCascade"
    /\ calls[c].pc = "cascadeBookings"
    /\ LET gone == BookingsOfEvent(Head(calls[c].todo))
           rest == Tail(calls[c].todo)
       IN  /\ \A b \in gone : ~Locked(BookingKey(b))
           /\ bookings' = Remove(bookings, gone)
           /\ calls' = MarkStale(
                         [calls EXCEPT ![c] =
                            [@ EXCEPT !.todo = rest,
                                      !.pc = IF rest = <<>> THEN "cascadeEvents"
                                             ELSE "cascadeBookings"]],
                         c, {BookingKey(b) : b \in gone})
           /\ lastBooked' = IF gone = {} THEN lastBooked ELSE NoneBooked
    /\ UNCHANGED <<events, categories, nextBookingID, nextEventID, now, reaper>>

\* DeleteMany of the events by the name read first.
Cascade_DeleteEvents(c) ==
    /\ calls[c].op = "DeleteCategoryWithCascade"
    /\ calls[c].pc = "cascadeEvents"
    /\ LET gone == EventsOfCategory(calls[c].name)
       IN  /\ \A e \in gone : ~Locked(EventKey(e))
           /\ events' = Remove(events, gone)
           /\ calls' = MarkStale([calls EXCEPT ![c].pc = "cascadeCategory"],
                                 c, {EventKey(e) : e \in gone})
           /\ lastBooked' = IF gone = {} THEN lastBooked ELSE NoneBooked
    /\ UNCHANGED <<bookings, categories, nextBookingID, nextEventID, now, reaper>>

Cascade_DeleteCategory(c) ==
    /\ calls[c].op = "DeleteCategoryWithCascade"
    /\ calls[c].pc = "cascadeCategory"
    /\ LET id == ObjectIDFromHex(calls[c].reqCategory).id
       IN  /\ categories' = Remove(categories, {id})
           /\ calls' = [calls EXCEPT ![c] =
                 IF id \in DOMAIN categories
                 THEN Finish(@, ErrNone, StatusOK)
                 ELSE Finish(@, ErrCategoryNotFound, StatusBadRequest)]
    /\ UNCHANGED <<events, bookings, nextBookingID, nextEventID, now, lastBooked, reaper>>

\* A store operation of the cascade returns an error: the cascade stops
\* where it is.
CascadeFault(c) ==
    /\ calls[c].op = "DeleteCategoryWithCascade"
    /\ calls[c].pc \in {"cascadeGet", "cascadeGetAgain", "cascadeFind",
                        "cascadeBookings", "cascadeEvents", "cascadeCategory"}
    /\ calls' = [calls EXCEPT ![c] =
                   Finish(@, IF @.pc = "cascadeEvents" THEN ErrDeleteEvents
                             ELSE IF @.pc = "cascadeBookings" THEN ErrDeleteBookings
                             ELSE ErrInternal,
                          StatusBadRequest)]
    /\ UNCHANGED <<events, bookings, categories, nextBookingID, nextEventID, now, lastBooked, reaper>>

(***************************************************************************)
(* CategoryController.CreateCategory / CategoryStore.CreateCategory and    *)
(* CategoryController.UpdateCategory / CategoryStore.UpdateCategory, for   *)
(* requests that carry a name.                                             *)
(***************************************************************************)
CreatingCategories ==
    Cardinality({c \in Clients : calls[c].op = "CreateCategory" /\ ~Ready(c)})

\* The id InsertOne gives the new category: one no category has had (no
\* category is deleted where categories are created).
InsertedCategoryID ==
    1 + Cardinality(DOMAIN categories)

HandleCreateCategory(c, name) ==
    /\ Ready(c)
    /\ Cardinality(DOMAIN categories) + CreatingCategories < MaxCategories
    /\ LET req == [IdleCall EXCEPT !.op = "CreateCategory", !.name = name]
       IN  calls' = [calls EXCEPT ![c] =
             IF name = "" THEN Finish(req, ErrNone, StatusBadRequest)
             ELSE [req EXCEPT !.pc = "findCategory"]]
    /\ UNCHANGED <<events, bookings, categories, nextBookingID, nextEventID, now, lastBooked, reaper>>

\* FindOne with the exact-match filter {"name": category.Name}.
CreateCategory_FindOne(c) ==
    /\ calls[c].op = "CreateCategory"
    /\ calls[c].pc = "findCategory"
    /\ calls' = [calls EXCEPT ![c] =
         IF \E k \in DOMAIN categories : categories[k].Name = calls[c].name
         THEN Finish(@, ErrCategoryExists, StatusInternalServerError)
         ELSE [@ EXCEPT !.pc = "insertCategory"]]
    /\ UNCHANGED <<events, bookings, categories, nextBookingID, nextEventID, now, lastBooked, reaper>>

CreateCategory_InsertOne(c) ==
    /\ calls[c].op = "CreateCategory"
    /\ calls[c].pc = "insertCategory"
    /\ categories' = Put(categories, InsertedCategoryID, [Name |-> calls[c].name])
    /\ calls' = [calls EXCEPT ![c] = Finish(@, ErrNone, StatusCreated)]
    /\ UNCHANGED <<events, bookings, nextBookingID, nextEventID, now, lastBooked, reaper>>

HandleUpdateCategory(c, categoryHex, name) ==
    /\ Ready(c)
    /\ LET req == [IdleCall EXCEPT !.op = "UpdateCategory",
                                   !.reqCategory = categoryHex, !.name = name]
       IN  calls' = [calls EXCEPT ![c] =
             IF ~ObjectIDFromHex(categoryHex).ok \/ name = ""
             THEN Finish(req, ErrNone, StatusBadRequest)
             ELSE [req EXCEPT !.pc = "updateCategory"]]
    /\ UNCHANGED <<events, bookings, categories, nextBookingID, nextEventID, now, lastBooked, reaper>>

\* UpdateOne({"_id": categoryID}, {"$set": {"name": name}}).
UpdateCategory_UpdateOne(c) ==
    /\ calls[c].op = "UpdateCategory"
    /\ calls[c].pc = "updateCategory"
    /\ LET id == ObjectIDFromHex(calls[c].reqCategory).id
       IN  IF id \in DOMAIN categories
           THEN /\ categories' = [categories EXCEPT ![id].Name = calls[c].name]
                /\ calls' = [calls EXCEPT ![c] = Finish(@, ErrNone, StatusOK)]
           ELSE /\ categories' = categories
                /\ calls' = [calls EXCEPT ![c] =
                               Finish(@, ErrCategoryNotFound,
                                      StatusInternalServerError)]
    /\ UNCHANGED <<events, bookings, nextBookingID, nextEventID, now, lastBooked, reaper>>

(***************************************************************************)
(* The reads of bookings: GetUserBookings and GetAllBookings behind the    *)
(* JWT middleware, and BookingStore.GetBookingsByEventID.                  *)
(***************************************************************************)
\* The filter of each read.
Matching(call) ==
    {b \in DOMAIN bookings :
        CASE call.op = "GetBookingsByUserID" -> bookings[b].UserID = call.user
          [] call.op = "GetBookingsByEventID" ->
                bookings[b].EventID = ObjectIDFromHex(call.reqEvent).id
          [] OTHER -> TRUE}

\* The documents of ids in the cursor's order.
Documents(ids) == [i \in 1..Len(Ascending(ids)) |-> bookings[Ascending(ids)[i]]]

\* cursor.All(ctx, &bookings) into a nil slice: with no document the slice
\* may be left nil or be set to an empty one.
CursorAll(docs) == IF docs = <<>> THEN {NilSlice, Slice(<<>>)} ELSE {Slice(docs)}

\* A read that returns the slice as decoded.
AsDecoded(slice) == slice

\* if bookings == nil { bookings = []models.Booking{} }
NonNil(slice) == IF slice.isNil THEN Slice(<<>>) ELSE slice

HandleGetUserBookings(c, user) ==
    /\ Ready(c)
    /\ LET req == [IdleCall EXCEPT !.op = "GetBookingsByUserID", !.user = user]
       IN  calls' = [calls EXCEPT ![c] =
             IF user = 0 THEN Finish(req, ErrNone, StatusUnauthorized)
             ELSE [req EXCEPT !.pc = "findBookings"]]
    /\ UNCHANGED <<events, bookings, categories, nextBookingID, nextEventID, now, lastBooked, reaper>>

\* GET /bookings/all: the JWT middleware, then the handler.
HandleGetAllBookings(c, user) ==
    /\ Ready(c)
    /\ LET req == [IdleCall EXCEPT !.op = "GetAllBookings", !.user = user]
       IN  calls' = [calls EXCEPT ![c] =
             IF user = 0 THEN Finish(req, ErrNone, StatusUnauthorized)
             ELSE [req EXCEPT !.pc = "findBookings"]]
    /\ UNCHANGED <<events, bookings, categories, nextBookingID, nextEventID, now, lastBooked, reaper>>

CallGetBookingsByEventID(c, id) ==
    /\ Ready(c)
    /\ calls' = [calls EXCEPT ![c] =
                   [IdleCall EXCEPT !.op = "GetBookingsByEventID",
                                    !.pc = "findBookings", !.reqEvent = Hex(id)]]
    /\ UNCHANGED <<events, bookings, categories, nextBookingID, nextEventID, now, lastBooked, reaper>>

\* Find, cursor.All and the nil test; the answer keeps who asked.
GetBookings_Find(c) ==
    /\ calls[c].pc = "findBookings"
    /\ \E decoded \in CursorAll(Documents(Matching(calls[c]))) :
          calls' = [calls EXCEPT ![c] =
                      [Finish(@, ErrNone, StatusOK) EXCEPT
                          !.result = NonNil(decoded), !.user = calls[c].user]]
    /\ UNCHANGED <<events, bookings, categories, nextBookingID, nextEventID, now, lastBooked, reaper>>

\* Find or cursor.All returns an error: the read returns nil and the error.
GetBookings_Fault(c) ==
    /\ calls[c].pc = "findBookings"
    /\ calls' = [calls EXCEPT ![c] =
                   [Finish(@, ErrInternal, StatusInternalServerError) EXCEPT
                       !.user = calls[c].user]]
    /\ UNCHANGED <<events, bookings, categories, nextBookingID, nextEventID, now, lastBooked, reaper>>

(***************************************************************************)
(* StartEventCleanupScheduler, runCleanup and EventStore.DeleteExpiredEvents.*)
(* The clock counts hours: the ticker sends a tick as each hour passes.    *)
(***************************************************************************)
\* A loop that ends at the first sweep that returned an error.
StopOnError(r, count, err) ==
    [r EXCEPT !.pc = IF err = ErrNone THEN "waiting" ELSE "stopped",
              !.count = count, !.err = err,
              !.cutoff = 0, !.todo = <<>>,
              !.failed = IF err = ErrNone THEN @ ELSE @ + 1]

\* runCleanup logs what DeleteExpiredEvents returned and returns; the
\* goroutine is back at `for range ticker.C`.
RunCleanupReturns(r, count, err) ==
    [r EXCEPT !.pc = "waiting",
              !.count = count, !.err = err,
              !.cutoff = 0, !.todo = <<>>,
              !.failed = IF err = ErrNone THEN @ ELSE @ + 1]

\* An hour passes.  The ticker's channel holds one tick: a tick that finds
\* the channel full is dropped.
Ticker_Tick ==
    /\ now < MaxTime
    /\ now' = now + 1
    /\ reaper' = IF reaper.pending = 0
                 THEN [reaper EXCEPT !.pending = 1, !.ticks = @ + 1]
                 ELSE reaper
    /\ UNCHANGED <<events, bookings, categories, nextBookingID, nextEventID, calls, lastBooked>>

\* The goroutine calls runCleanup: once when it starts, then on every tick
\* it receives.  DeleteExpiredEvents builds its filter from time.Now().
\* A runCleanup started for every tick, whatever the goroutine is doing.
StartedPerTick(r) == r.pc # "startup" /\ r.pending = 1

\* `for range ticker.C`: the goroutine, back from runCleanup, receives the
\* tick that the channel holds.
ReceivesTick(r) == r.pc = "waiting" /\ r.pending = 1

Reaper_RunCleanup ==
    /\ \/ reaper.pc = "startup"
       \/ ReceivesTick(reaper)
    /\ reaper' = [reaper EXCEPT !.pc = "find",
                                !.pending = IF reaper.pc = "startup" THEN @ ELSE 0,
                                !.sweeps = @ + 1,
                                !.cutoff = now]
    /\ UNCHANGED <<events, bookings, categories, nextBookingID, nextEventID, now, calls, lastBooked>>

\* A filter that also asks for a booking of the event.
ExpiredEventsWithBookings(cutoff) ==
    {e \in DOMAIN events : events[e].EndTime < cutoff /\ BookingsOfEvent(e) # {}}

\* filter {"end_time": {"$lt": cutoff}}
ExpiredEvents(cutoff) == {e \in DOMAIN events : events[e].EndTime < cutoff}

\* collection.Find(filter) and cursor.All.
DeleteExpired_Find ==
    /\ reaper.pc = "find"
    /\ LET found == Ascending(ExpiredEvents(reaper.cutoff))
       IN  reaper' = [reaper EXCEPT !.todo = found,
                                    !.pc = IF found = <<>> THEN "sweepEvents"
                                           ELSE "sweepBookings"]
    /\ UNCHANGED <<events, bookings, categories, nextBookingID, nextEventID, now, calls, lastBooked>>

\* One round of the loop: DeleteBookingsByEventID of the next event found.
DeleteExpired_Bookings ==
    /\ reaper.pc = "sweepBookings"
    /\ LET gone == BookingsOfEvent(Head(reaper.todo))
           rest == Tail(reaper.todo)
       IN  /\ \A b \in gone : ~Locked(BookingKey(b))
           /\ bookings' = Remove(bookings, gone)
           /\ calls' = MarkStale(calls, 0, {BookingKey(b) : b \in gone})
           /\ reaper' = [reaper EXCEPT !.todo = rest,
                                       !.pc = IF rest = <<>> THEN "sweepEvents"
                                              ELSE "sweepBookings"]
           /\ lastBooked' = IF gone = {} THEN lastBooked ELSE NoneBooked
    /\ UNCHANGED <<events, categories, nextBookingID, nextEventID, now>>

\* collection.DeleteMany(filter) with the same filter; DeletedCount is
\* returned.
DeleteExpired_Events ==
    /\ reaper.pc = "sweepEvents"
    /\ LET gone == ExpiredEvents(reaper.cutoff)
       IN  /\ \A e \in gone : ~Locked(EventKey(e))
           /\ events' = Remove(events, gone)
           /\ calls' = MarkStale(calls, 0, {EventKey(e) : e \in gone})
           /\ reaper' = RunCleanupReturns(reaper, Cardinality(gone), ErrNone)
           /\ lastBooked' = IF gone = {} THEN lastBooked ELSE NoneBooked
    /\ UNCHANGED <<bookings, categories, nextBookingID, nextEventID, now>>

\* A store operation of the sweep returns an error: DeleteExpiredEvents
\* returns 0 and the error.
DeleteExpired_Fault ==
    /\ reaper.pc \in {"find", "sweepBookings", "sweepEvents"}
    /\ reaper' = RunCleanupReturns(reaper, 0,
                                   IF reaper.pc = "sweepBookings"
                                   THEN ErrDeleteBookings ELSE ErrInternal)
    /\ UNCHANGED <<events, bookings, categories, nextBookingID, nextEventID, now, calls, lastBooked>>

(***************************************************************************)
(* Ticket arrays and request values the specifications draw from.          *)
(***************************************************************************)
\* The price of a ticket of each type.
PriceOf == [VIP |-> 3, Regular |-> 2]

\* Ticket arrays of events as a host creates them: nothing sold yet
\* (available = total).  The second has two classes of one type.
TicketChoices ==
    { <<TicketInfo("VIP", PriceOf.VIP, MaxQty, MaxQty)>>,
      <<TicketInfo("VIP", PriceOf.VIP, 1, 1), TicketInfo("VIP", PriceOf.VIP, MaxQty, MaxQty)>>,
      <<TicketInfo("Regular", PriceOf.Regular, 1, 1), TicketInfo("VIP", PriceOf.VIP, MaxQty, MaxQty)>> }

\* An existing event, an id no event has, and a malformed id.
EventHexes == {Hex(1), Hex(9), BadHex}
BookingHexes == {Hex(b) : b \in 1..MaxBookings} \cup {BadHex}

TypeOK ==
    /\ DOMAIN events \subseteq 1..9
    /\ DOMAIN bookings \subseteq 1..MaxBookings
    /\ nextBookingID \in 1..(MaxBookings + 1)
    /\ \A c \in Clients : calls[c].pc = "idle" => calls[c] = IdleCall

InitWith(tickets) ==
    /\ events = (1 :> Event("Music", 2, tickets))
    /\ bookings = <<>>
    /\ categories = (1 :> [Name |-> "Music"])
    /\ nextBookingID = 1
    /\ nextEventID = 2
    /\ now = 1
    /\ calls = [c \in Clients |-> IdleCall]
    /\ lastBooked = NoneBooked
    /\ reaper = ReaperAtStart

(***************************************************************************)
(* SpecCreate: N concurrent CreateBooking calls, one per client, against   *)
(* the one ticket class of one event; the store answers every operation.   *)
(***************************************************************************)
StockChoices == {MaxStock - 1, MaxStock}
BookQtyChoices == {1, 2, MaxBookQty - 1, MaxBookQty}

InitCreate ==
    \E stock \in StockChoices :
        InitWith(<<TicketInfo("VIP", PriceOf.VIP, stock, stock)>>)

NextCreate ==
    \E c \in Clients :
        \/ /\ calls[c].pc = "idle"
           /\ \E q \in BookQtyChoices : HandleCreateBooking(c, 1, Hex(1), "VIP", q)
        \/ CreateBooking_FindEvent(c)
        \/ CreateBooking_InsertOne(c)
        \/ CreateBooking_UpdateOne(c)
        \/ CommitTransaction(c)

SpecCreate == InitCreate /\ [][NextCreate]_vars

RECURSIVE SumOver(_, _)
SumOver(f, S) ==
    IF S = {} THEN 0
    ELSE LET x == CHOOSE y \in S : TRUE IN f[x] + SumOver(f, S \ {x})

Succeeded(c) ==
    /\ calls[c].op = "CreateBooking"
    /\ calls[c].pc = "done"
    /\ calls[c].status = StatusCreated

\* The quantity each call was granted.
GrantedTo == [c \in Clients |-> IF Succeeded(c) THEN calls[c].booking.Quantity ELSE 0]

\* In SpecCreate nothing changes the total quantity, and the class starts with
\* available = total: the total is the quantity Q the calls compete for.
StockAtStart == events[1].Tickets[1].TotalQuantity

\* C2: the quantities granted to the concurrent CreateBooking calls that
\* succeeded never add up to more than the quantity Q that was available.
C2_NoOversell == SumOver(GrantedTo, Clients) <= StockAtStart

\* Two calls were granted tickets, one of them on a re-run of its callback
\* after a write conflict with the other.
C2_Witness ==
    \E c, d \in Clients :
        /\ c # d
        /\ Succeeded(c) /\ Succeeded(d)
        /\ calls[d].rerun

\* The calls that were made.
Made == {c \in Clients : calls[c].pc # "idle"}

ScenarioB ==
    /\ StockAtStart = 10
    /\ Cardinality(Made) = 2
    /\ \A c \in Made : calls[c].pc = "done" /\ calls[c].reqQty = 6

\* C3: with available = 10, two concurrent calls for 6 tickets each end with
\* one success, the other call failing with "not enough tickets available",
\* and available = 4.
C3_ScenarioB ==
    ScenarioB =>
        /\ \E w \in Made :
              /\ Succeeded(w)
              /\ \A l \in Made \ {w} :
                    /\ calls[l].status = StatusInternalServerError
                    /\ calls[l].err = ErrNotEnoughTickets
        /\ events[1].Tickets[1].AvailableQuantity = 4

\* Scenario B has run, and the losing call met the winner's write: its
\* callback ran twice.
C3_Witness ==
    /\ ScenarioB
    /\ \E l \in Made : calls[l].err = ErrNotEnoughTickets /\ calls[l].rerun

(***************************************************************************)
(* SpecBooking: clients book and cancel concurrently on one event, with    *)
(* well-formed and malformed requests, and store operations that may fail. *)
(***************************************************************************)
InitBooking == \E t \in TicketChoices : InitWith(t)

\* Two clients.  The first sends every kind of request; the second books
\* and cancels single VIP tickets next to it.
Bookers == {1, 2}

CreateRequest(c) ==
    IF c = 1
    THEN \E u \in {0, 1}, h \in EventHexes, t \in RequestTypes, q \in (-1)..MaxQty :
            HandleCreateBooking(c, u, h, t, q)
    ELSE HandleCreateBooking(c, 1, Hex(1), "VIP", 1)

CancelRequest(c) ==
    IF c = 1
    THEN \E u \in Users \cup {0}, h \in BookingHexes : HandleCancelBooking(c, u, h)
    ELSE \E b \in 1..MaxBookings : HandleCancelBooking(c, 1, Hex(b))

NextBooking ==
    \E c \in Bookers :
        \/ CreateRequest(c)
        \/ CreateBooking_FindEvent(c)
        \/ CreateBooking_InsertOne(c)
        \/ CreateBooking_UpdateOne(c)
        \/ CancelRequest(c)
        \/ CancelBooking_Find(c)
        \/ CancelBooking_UpdateOne(c)
        \/ CancelBooking_DeleteOne(c)
        \/ CommitTransaction(c)
        \/ StoreFault(c)

SpecBooking == InitBooking /\ [][NextBooking]_vars

\* The positions of a call inside the store's transaction.
TxnPcs == {"find", "insert", "update", "restore", "delete", "commit"}

\* Call c of operation op takes a step inside the store.
StoreStep(c, op) ==
    /\ calls[c].op = op
    /\ calls[c].pc \in TxnPcs
    /\ calls'[c].pc # calls[c].pc

Available(evs, e, i) == evs[e].Tickets[i].AvailableQuantity

\* C4: CreateBooking is all-or-nothing.  The step that ends a call with
\* success adds exactly one Booking, the one the call answers with, and takes
\* exactly the requested quantity from the matched ticket class; every other
\* step of a call, the one that ends it with a failure included, leaves the
\* Bookings and the Events as they are.
C4_AllOrNothing ==
    [][\A c \in Clients :
        StoreStep(c, "CreateBooking") =>
            IF calls'[c].pc = "done" /\ calls'[c].status = StatusCreated
            THEN LET b == calls'[c].booking
                     e == b.EventID
                     i == FirstMatch(events[e].Tickets, b.TicketType)
                 IN  /\ b.ID \notin DOMAIN bookings
                     /\ bookings' = Put(bookings, b.ID, b)
                     /\ b.Quantity = calls[c].reqQty
                     /\ e \in DOMAIN events
                     /\ i # 0
                     /\ events' = [events EXCEPT ![e].Tickets[i].AvailableQuantity =
                                                    @ - b.Quantity]
            ELSE bookings' = bookings /\ events' = events]_vars

\* One call failed after its Booking insert, and nothing of it is stored;
\* another call succeeded.
C4_Witness ==
    \E c, d \in Clients :
        /\ calls[c].op = "CreateBooking" /\ calls[c].pc = "done"
        /\ calls[c].err = ErrInternal
        /\ calls[c].booking.ID # NilObjectID
        /\ calls[c].booking.ID \notin DOMAIN bookings
        /\ Succeeded(d)
        /\ calls[d].booking.ID \in DOMAIN bookings

\* C5: a CreateBooking immediately followed by the CancelBooking of the id it
\* answered with leaves the Events as they were before the booking (so the
\* ticket class has its pre-booking available again), and GetBookingByID of
\* that id then fails with "booking not found".
C5_RoundTrip ==
    lastBooked.cancelled =>
        /\ events = lastBooked.before
        /\ GetBookingByID(Hex(lastBooked.id)).err = ErrBookingNotFound

\* The round trip has run on the event with two ticket classes of one type.
C5_Witness ==
    /\ lastBooked.cancelled
    /\ Len(events[1].Tickets) = 2
    /\ events[1].Tickets[1].Type = events[1].Tickets[2].Type

\* C8: a CreateBooking whose ticket type matches no ticket class of its
\* (existing) event ends with "ticket type not found for this event", and the
\* Bookings and the Events stay as they are.
C8_TicketTypeNotFound ==
    [][\A c \in Clients :
        (/\ StoreStep(c, "CreateBooking")
         /\ calls[c].pc = "find"
         /\ ~StoreFault(c)
         /\ calls[c].booking.EventID \in DOMAIN events
         /\ \A i \in 1..Len(events[calls[c].booking.EventID].Tickets) :
               events[calls[c].booking.EventID].Tickets[i].Type
                  # calls[c].booking.TicketType)
        => /\ calls'[c].pc = "done"
           /\ calls'[c].err = ErrTicketTypeNotFound
           /\ bookings' = bookings
           /\ events' = events]_vars

C8_Witness ==
    \E c \in Clients :
        /\ calls[c].op = "CreateBooking" /\ calls[c].pc = "done"
        /\ calls[c].err = ErrTicketTypeNotFound
        /\ bookings # <<>>

\* The ticket class a CreateBooking call at its "find" step selects in the
\* committed Events (0: none).
Matched(c) ==
    IF calls[c].booking.EventID \in DOMAIN events
    THEN FirstMatch(events[calls[c].booking.EventID].Tickets,
                    calls[c].booking.TicketType)
    ELSE 0

\* C9: CreateBooking fails with "not enough tickets available" exactly when
\* the matched ticket class's available is smaller than the requested
\* quantity: the availability test answers with that error if and only if
\* available < quantity, no other step produces it, and a request for exactly
\* the available quantity passes that test and, committed, leaves 0.
C9_NotEnoughTickets ==
    [][\A c \in Clients :
        StoreStep(c, "CreateBooking") =>
            /\ (calls[c].pc = "find" /\ ~StoreFault(c) /\ Matched(c) # 0) =>
                   LET e == calls[c].booking.EventID
                   IN  /\ (calls'[c].err = ErrNotEnoughTickets)
                              <=> (Available(events, e, Matched(c)) < calls[c].reqQty)
                       /\ (Available(events, e, Matched(c)) >= calls[c].reqQty)
                              => calls'[c].pc = "insert"
            /\ (calls'[c].err = ErrNotEnoughTickets) =>
                   /\ calls[c].pc = "find"
                   /\ Matched(c) # 0
                   /\ Available(events, calls[c].booking.EventID, Matched(c))
                          < calls[c].reqQty
                   /\ bookings' = bookings /\ events' = events
            /\ (/\ calls'[c].pc = "done" /\ calls'[c].status = StatusCreated
                /\ calls[c].selAvail = calls[c].reqQty) =>
                   Available(events', calls[c].booking.EventID,
                             calls[c].ticketIndex) = 0]_vars

\* A booking of exactly the available quantity has just succeeded and left 0,
\* and another call was refused for want of tickets.
C9_Witness ==
    \E c, d \in Clients :
        /\ Succeeded(c)
        /\ lastBooked.id = calls[c].booking.ID
        /\ ~lastBooked.cancelled
        /\ LET e == calls[c].booking.EventID
               i == FirstMatch(events[e].Tickets, calls[c].booking.TicketType)
           IN  /\ Available(lastBooked.before, e, i) = calls[c].booking.Quantity
               /\ Available(events, e, i) = 0
        /\ calls[d].op = "CreateBooking" /\ calls[d].pc = "done"
        /\ calls[d].err = ErrNotEnoughTickets

\* A CreateBooking request with a quantity of zero or less is answered with
\* 400 and never reaches the store; no stored Booking has such a quantity.
C10_Rejected ==
    /\ \A c \in Clients :
          (calls[c].op = "CreateBooking" /\ calls[c].reqQty <= 0) =>
              /\ calls[c].pc = "done"
              /\ calls[c].status = StatusBadRequest
              /\ calls[c].booking = NoBooking
    /\ \A b \in DOMAIN bookings : bookings[b].Quantity > 0

\* The request step of a CreateBooking with a quantity of zero or less leaves
\* the Bookings and the Events as they are, and no step of a CreateBooking
\* call raises the available of any ticket class.
C10_NoIncrease ==
    \A c \in Clients :
        /\ (/\ Ready(c)
            /\ calls'[c] # calls[c]
            /\ calls'[c].op = "CreateBooking"
            /\ calls'[c].reqQty <= 0)
           => /\ bookings' = bookings
              /\ events' = events
              /\ calls'[c].status = StatusBadRequest
        /\ StoreStep(c, "CreateBooking") =>
              \A e \in DOMAIN events :
                 /\ e \in DOMAIN events'
                 /\ Len(events'[e].Tickets) = Len(events[e].Tickets)
                 /\ \A i \in 1..Len(events[e].Tickets) :
                       Available(events', e, i) <= Available(events, e, i)

\* C10: a CreateBooking with quantity <= 0 is rejected, creates no Booking
\* and leaves the inventory unchanged; no create path ever increases
\* available.
C10_NonPositiveQuantity == []C10_Rejected /\ [][C10_NoIncrease]_vars

\* A request for -1 tickets has been rejected while a Booking is stored.
C10_Witness ==
    /\ calls[1].op = "CreateBooking" /\ calls[1].pc = "done"
    /\ calls[1].reqQty = -1
    /\ calls[1].status = StatusBadRequest
    /\ bookings # <<>>

(***************************************************************************)
(* Spec: attendees book and cancel VIP tickets of one event while its host *)
(* updates and deletes it; store operations may fail.                      *)
(***************************************************************************)
Init == \E t \in TicketChoices : InitWith(t)

\* The bodies a host sends to update the event: each states its ticket
\* classes with available = total.
UpdateDocs == {Event("Music", 2, t) : t \in TicketChoices}

Next ==
    \E c \in Clients :
        \/ \E q \in 1..MaxQty : HandleCreateBooking(c, 1, Hex(1), "VIP", q)
        \/ CreateBooking_FindEvent(c)
        \/ CreateBooking_InsertOne(c)
        \/ CreateBooking_UpdateOne(c)
        \/ \E b \in 1..MaxBookings : HandleCancelBooking(c, 1, Hex(b))
        \/ CancelBooking_Find(c)
        \/ CancelBooking_UpdateOne(c)
        \/ CancelBooking_DeleteOne(c)
        \/ CommitTransaction(c)
        \/ StoreFault(c)
        \/ HandleDeleteEvent(c, Hex(1))
        \/ DeleteEvent_Bookings(c)
        \/ DeleteEvent_BookingsFail(c)
        \/ DeleteEvent_Event(c)
        \/ \E doc \in UpdateDocs : HandleUpdateEvent(c, Hex(1), doc)
        \/ UpdateEvent_Store(c)

Spec == Init /\ [][Next]_vars

\* The operation of the call whose step this is.
Stepping(c) == IF Ready(c) THEN calls'[c].op ELSE calls[c].op

CoreOperations == {"CreateBooking", "CancelBooking", "DeleteEvent"}

\* 0 <= available <= total for every ticket class of every event of evs.
TicketsInRange(evs) ==
    \A e \in DOMAIN evs :
        \A i \in 1..Len(evs[e].Tickets) :
            /\ 0 <= evs[e].Tickets[i].AvailableQuantity
            /\ evs[e].Tickets[i].AvailableQuantity <= evs[e].Tickets[i].TotalQuantity

\* C1: a step of a core operation taken in a state where every ticket class
\* has 0 <= available <= total leads to a state where that holds again.
C1_AvailableInRange ==
    [][\A c \in Clients :
        (/\ calls'[c].pc # calls[c].pc
         /\ Stepping(c) \in CoreOperations
         /\ TicketsInRange(events))
        => TicketsInRange(events')]_vars

\* A DeleteEvent call is between its two deletions.
DeletionInProgress ==
    \E c \in Clients :
        calls[c].op = "DeleteEvent" /\ calls[c].pc \in {"deleteBookings", "deleteEvent"}

\* C6: while no deletion is in progress, every stored Booking references a
\* stored Event.
C6_BookingHasEvent ==
    ~DeletionInProgress =>
        \A b \in DOMAIN bookings : bookings[b].EventID \in DOMAIN events

\* The ticket class at position i of event e is the same class before and
\* after the step.
SameClass(e, i) ==
    /\ i <= Len(events'[e].Tickets)
    /\ events'[e].Tickets[i].Type = events[e].Tickets[i].Type
    /\ events'[e].Tickets[i].TotalQuantity = events[e].Tickets[i].TotalQuantity

\* C7: the available of a ticket class changes only in the step that ends a
\* CreateBooking with success (down by the booked quantity) or a
\* CancelBooking with success (up by the cancelled booking's quantity).
C7_AvailableChanges ==
    [][\A e \in DOMAIN events \cap DOMAIN events' :
        \A i \in 1..Len(events[e].Tickets) :
            (SameClass(e, i) /\ Available(events', e, i) # Available(events, e, i))
            => \E c \in Clients :
                  /\ calls[c].pc = "commit" /\ calls'[c].pc = "done"
                  /\ calls'[c].err = ErrNone
                  /\ calls[c].ticketIndex = i
                  /\ \/ /\ calls[c].op = "CreateBooking"
                        /\ Available(events', e, i)
                              = Available(events, e, i) - calls[c].booking.Quantity
                     \/ /\ calls[c].op = "CancelBooking"
                        /\ Available(events', e, i)
                              = Available(events, e, i) + calls[c].booking.Quantity]_vars

(***************************************************************************)
(* SpecPrice: BookingStore.CreateBooking is handed bookings that carry a   *)
(* status and a total of the caller's, while the host changes the prices   *)
(* of the event.                                                           *)
(***************************************************************************)
\* What the caller puts in the booking: never the values the store sets.
SuppliedStatus == {"cancelled", "pending"}
SuppliedTotals == {0, 99}

SuppliedBookings ==
    {Booking(NilObjectID, 1, 1, t, q, total, st) :
        t \in {"VIP", "Regular"}, q \in 1..MaxQty,
        total \in SuppliedTotals, st \in SuppliedStatus}

\* The bodies the host sends: the ticket classes at a new price.
Repriced(tickets) == [i \in 1..Len(tickets) |-> [tickets[i] EXCEPT !.Price = @ + 2]]

PriceDocs == {Event("Music", 2, Repriced(t)) : t \in TicketChoices}

InitPrice == \E t \in TicketChoices : InitWith(t)

NextPrice ==
    \/ \E b \in SuppliedBookings : CallCreateBooking(1, b)
    \/ CreateBooking_FindEvent(1)
    \/ CreateBooking_InsertOne(1)
    \/ CreateBooking_UpdateOne(1)
    \/ CommitTransaction(1)
    \/ StoreFault(1)
    \/ \E doc \in PriceDocs : HandleUpdateEvent(2, Hex(1), doc)
    \/ UpdateEvent_Store(2)

SpecPrice == InitPrice /\ [][NextPrice]_vars

\* C11: the Booking a successful CreateBooking stores has totalPaid = the
\* unit price the matched ticket class has when the booking commits, times
\* the requested quantity, and status "confirmed", whatever the caller put in
\* the booking.
C11_TotalPaidAndStatus ==
    [][\A c \in Clients :
        (/\ StoreStep(c, "CreateBooking")
         /\ calls'[c].pc = "done" /\ calls'[c].status = StatusCreated)
        => LET id == calls'[c].booking.ID
               b == bookings'[id]
               e == b.EventID
               i == FirstMatch(events[e].Tickets, b.TicketType)
           IN  /\ id \in DOMAIN bookings' \ DOMAIN bookings
               /\ i # 0
               /\ b.Quantity = calls[c].reqQty
               /\ b.TotalPaid = events[e].Tickets[i].Price * calls[c].reqQty
               /\ b.Status = "confirmed"
               /\ calls'[c].booking = b]_vars

\* A booking of two tickets is stored at the new price: the host changed the
\* prices while the call was running, and the callback ran again.
C11_Witness ==
    \E c \in Clients :
        /\ Succeeded(c)
        /\ calls[c].rerun
        /\ calls[c].booking.ID \in DOMAIN bookings
        /\ calls[c].booking.Quantity = 2
        /\ bookings[calls[c].booking.ID].TotalPaid
              = 2 * (PriceOf[calls[c].booking.TicketType] + 2)

\* No stored Booking has a status other than "confirmed", and no call has
\* ended with "booking already cancelled".
C12_Confirmed ==
    /\ \A b \in DOMAIN bookings : bookings[b].Status = "confirmed"
    /\ \A c \in Clients : calls[c].err # ErrAlreadyCancelled

\* A Booking that is stored before and after a step is the same document.
C12_Unmodified ==
    \A b \in DOMAIN bookings \cap DOMAIN bookings' : bookings'[b] = bookings[b]

C13_BookingNotFound ==
    [][\A c \in Clients :
        /\ (/\ StoreStep(c, "CancelBooking")
            /\ calls[c].pc = "find"
            /\ ~StoreFault(c)
            /\ calls[c].booking.ID \notin DOMAIN bookings)
           => /\ calls'[c].pc = "done"
              /\ calls'[c].err = ErrBookingNotFound
              /\ bookings' = bookings
              /\ events' = events
        /\ (/\ Ready(c)
            /\ calls'[c].op = "CancelBooking"
            /\ calls'[c].pc = "find")
           => calls'[c].booking.ID \in DOMAIN bookings
        /\ (/\ Ready(c)
            /\ calls'[c] # calls[c]
            /\ calls'[c].op = "CancelBooking")
           => bookings' = bookings /\ events' = events
        /\ (/\ StoreStep(c, "CancelBooking")
            /\ calls'[c].pc = "done" /\ calls'[c].status = StatusOK)
           => /\ calls[c].booking.ID \in DOMAIN bookings
              /\ calls[c].booking.ID \notin DOMAIN bookings'
        /\ (/\ StoreStep(c, "CancelBooking")
            /\ ~(calls'[c].pc = "done" /\ calls'[c].status = StatusOK))
           => bookings' = bookings /\ events' = events]_vars

\* Two cancellations of one Booking: the first succeeded, the second ended
\* in the store with "booking not found".
C13_Witness ==
    \E c, d \in Clients :
        /\ c # d
        /\ calls[c].op = "CancelBooking" /\ calls[c].pc = "done"
        /\ calls[c].status = StatusOK
        /\ calls[d].op = "CancelBooking" /\ calls[d].pc = "done"
        /\ calls[d].err = ErrBookingNotFound
        /\ calls[d].booking.ID = calls[c].booking.ID

(***************************************************************************)
(* SpecEvent: an attendee books and cancels VIP tickets of the event while *)
(* its host deletes it, through the controller and, again, by calling      *)
(* EventStore.DeleteEvent with the id of the deleted event.                *)
(***************************************************************************)
InitEvent == \E t \in TicketChoices : InitWith(t)

NextEvent ==
    \/ \E q \in 1..MaxQty : HandleCreateBooking(1, 1, Hex(1), "VIP", q)
    \/ CreateBooking_FindEvent(1)
    \/ CreateBooking_InsertOne(1)
    \/ CreateBooking_UpdateOne(1)
    \/ \E b \in 1..MaxBookings : HandleCancelBooking(1, 1, Hex(b))
    \/ CancelBooking_Find(1)
    \/ CancelBooking_UpdateOne(1)
    \/ CancelBooking_DeleteOne(1)
    \/ CommitTransaction(1)
    \/ StoreFault(1)
    \/ HandleDeleteEvent(2, Hex(1))
    \/ CallDeleteEvent(2, 1)
    \/ DeleteEvent_Bookings(2)
    \/ DeleteEvent_BookingsFail(2)
    \/ DeleteEvent_Event(2)

SpecEvent == InitEvent /\ [][NextEvent]_vars

\* C14: CancelBooking of a Booking whose Event is gone takes the cleanup
\* branch (no error, no ticket class selected), and its commit deletes the
\* Booking, answers success and leaves the Events as they are.
C14_OrphanCleanup ==
    [][\A c \in Clients :
        /\ (/\ StoreStep(c, "CancelBooking")
            /\ calls[c].pc = "find"
            /\ ~StoreFault(c)
            /\ calls[c].booking.ID \in DOMAIN bookings
            /\ bookings[calls[c].booking.ID].EventID \notin DOMAIN events)
           => /\ calls'[c].pc = "delete"
              /\ calls'[c].err = ErrNone
              /\ calls'[c].ticketIndex = 0
              /\ calls'[c].wSet = NoSet
        /\ (/\ StoreStep(c, "CancelBooking")
            /\ calls[c].pc = "commit"
            /\ calls[c].booking.EventID \notin DOMAIN events)
           => /\ calls'[c].pc = "done"
              /\ calls'[c].status = StatusOK
              /\ calls'[c].err = ErrNone
              /\ events' = events
              /\ calls[c].booking.ID \in DOMAIN bookings
              /\ bookings' = Remove(bookings, {calls[c].booking.ID})]_vars

\* The cancellation of a stored Booking whose Event is gone is about to
\* commit: the deletion of the Booking is its only write.
C14_Witness ==
    \E c \in Clients :
        /\ calls[c].op = "CancelBooking" /\ calls[c].pc = "commit"
        /\ calls[c].booking.ID \in DOMAIN bookings
        /\ calls[c].booking.EventID \notin DOMAIN events
        /\ calls[c].wDel = calls[c].booking.ID
        /\ calls[c].wSet = NoSet

\* A DeleteEvent call that has returned success: the Event and the Bookings
\* it found referencing the Event when it began are gone.
C15_Deleted ==
    \A c \in Clients :
        (calls[c].op = "DeleteEvent" /\ calls[c].pc = "done"
         /\ calls[c].status # StatusNotFound /\ calls[c].err = ErrNone)
        => /\ DOMAIN calls[c].pre.events \cap DOMAIN events = {}
           /\ DOMAIN calls[c].pre.bookings \cap DOMAIN bookings = {}

\* The step of DeleteEvent that deletes the Event comes after the deletion of
\* the Bookings: none of the Bookings found at the start is left; and when no
\* Event has the id the call ends with "event not found", changing nothing.
C15_Order ==
    \A c \in Clients :
        LET id == ObjectIDFromHex(calls[c].reqEvent).id
        IN  /\ (calls[c].op = "DeleteEvent" /\ id \in DOMAIN events
                /\ id \notin DOMAIN events')
               => /\ calls[c].pc = "deleteEvent"
                  /\ DOMAIN calls[c].pre.bookings \cap DOMAIN bookings = {}
                  /\ calls'[c].err = ErrNone
            /\ (calls[c].op = "DeleteEvent" /\ calls[c].pc = "deleteEvent"
                /\ calls'[c].pc = "done" /\ id \notin DOMAIN events)
               => /\ calls'[c].err = ErrEventNotFound
                  /\ events' = events /\ bookings' = bookings
            /\ (calls[c].op = "DeleteEvent" /\ calls[c].pc = "deleteBookings"
                /\ calls'[c].pc = "deleteEvent")
               => /\ events' = events
                  /\ \A b \in DOMAIN bookings' : bookings'[b].EventID # id

\* C15: DeleteEvent deletes the Bookings referencing the Event before the
\* Event; when it returns success neither the Event nor any Booking that
\* referenced it at the start of the call exists; it fails with "event not
\* found" when no Event has the id.
C15_DeleteEvent == []C15_Deleted /\ [][C15_Order]_vars

\* A DeleteEvent that found the Event with Bookings has returned success.
C15_Witness ==
    \E c \in Clients :
        /\ calls[c].op = "DeleteEvent" /\ calls[c].pc = "done"
        /\ calls[c].err = ErrNone /\ calls[c].status = StatusOK
        /\ calls[c].pre.events # <<>>
        /\ calls[c].pre.bookings # <<>>

(***************************************************************************)
(* SpecCategory: CategoryStore.DeleteCategory runs next to a host who      *)
(* creates events.  Two categories exist: "Music" with one event, "Tech"   *)
(* with none.                                                              *)
(***************************************************************************)
TwoCategories == (1 :> [Name |-> "Music"]) @@ (2 :> [Name |-> "Tech"])

InitCategory ==
    /\ \E t \in TicketChoices : events = (1 :> Event("Music", 2, t))
    /\ bookings = <<>>
    /\ categories = TwoCategories
    /\ nextBookingID = 1
    /\ nextEventID = 2
    /\ now = 1
    /\ calls = [c \in Clients |-> IdleCall]
    /\ lastBooked = NoneBooked
    /\ reaper = ReaperAtStart

\* The bodies a host sends to create an event.
CreateDocs ==
    {Event(n, 2, <<TicketInfo("VIP", PriceOf.VIP, MaxQty, MaxQty)>>) :
        n \in {"Tech", "tech", "Music", "Jazz", ""}}

NextCategory ==
    \/ \E id \in DOMAIN TwoCategories : CallDeleteCategory(1, id)
    \/ DeleteCategory_GetCategoryByID(1)
    \/ DeleteCategory_CountDocuments(1)
    \/ DeleteCategory_DeleteOne(1)
    \/ \E doc \in CreateDocs : HandleCreateEvent(2, doc)
    \/ CreateEvent_GetCategoryByName(2)
    \/ CreateEvent_InsertOne(2)

SpecCategory == InitCategory /\ [][NextCategory]_vars

\* C16: DeleteCategory ends with "cannot delete category with existing
\* events", deleting nothing, when its count finds an Event of the
\* Category's name; and when it returns success no stored Event carries the
\* name of the Category it deleted.
C16_NoEventOfDeletedCategory ==
    [][\A c \in Clients :
        /\ (/\ calls[c].op = "DeleteCategory" /\ calls[c].pc = "countEvents"
            /\ calls'[c].pc # calls[c].pc
            /\ EventsOfCategory(calls[c].name) # {})
           => /\ calls'[c].pc = "done"
              /\ calls'[c].err = ErrCategoryHasEvents
              /\ categories' = categories /\ events' = events
        /\ (/\ calls[c].op = "DeleteCategory" /\ calls[c].pc = "deleteCategory"
            /\ calls'[c].pc = "done" /\ calls'[c].err = ErrNone)
           => \A e \in DOMAIN events' : events'[e].CategoryName # calls[c].name]_vars

(***************************************************************************)
(* SpecCascade: one caller at a time.  Three events in two categories,     *)
(* with bookings, are deleted by DeleteCategoryWithCascade and DeleteEvent *)
(* calls that may stop at a failing store operation and be made again.     *)
(***************************************************************************)
\* An event of the category with `booked` of its MaxQty VIP tickets sold.
EventWith(category, booked) ==
    Event(category, 2, <<TicketInfo("VIP", PriceOf.VIP, MaxQty, MaxQty - booked)>>)

BookingsOn(where) ==
    [b \in DOMAIN where |-> Booking(b, 1, where[b], "VIP", 1, PriceOf.VIP, "confirmed")]

BookedOn(where, e) == Cardinality({b \in DOMAIN where : where[b] = e})

InitCascade ==
    \E second \in {"Music", "music", "Tech"}, third \in {"Music", "Tech"},
       n \in 0..MaxBookings :
        \E where \in [1..n -> 1..3] :
            /\ events = (1 :> EventWith("Music", BookedOn(where, 1)))
                        @@ (2 :> EventWith(second, BookedOn(where, 2)))
                        @@ (3 :> EventWith(third, BookedOn(where, 3)))
            /\ bookings = BookingsOn(where)
            /\ categories = TwoCategories
            /\ nextBookingID = n + 1
            /\ nextEventID = 4
            /\ now = 1
            /\ calls = [c \in Clients |-> IdleCall]
            /\ lastBooked = NoneBooked
            /\ reaper = ReaperAtStart

NextCascade ==
    \/ \E id \in DOMAIN TwoCategories : HandleDeleteCategory(1, Hex(id))
    \/ Cascade_GetCategoryByID(1)
    \/ Cascade_GetEventsByCategory(1)
    \/ Cascade_FindEvents(1)
    \/ Cascade_DeleteBookings(1)
    \/ Cascade_DeleteEvents(1)
    \/ Cascade_DeleteCategory(1)
    \/ CascadeFault(1)
    \/ \E e \in 1..3 : HandleDeleteEvent(1, Hex(e))
    \/ \E e \in 1..3 : CallDeleteEvent(1, e)
    \/ DeleteEvent_Bookings(1)
    \/ DeleteEvent_BookingsFail(1)
    \/ DeleteEvent_Event(1)
    \/ DeleteEvent_EventFail(1)

SpecCascade == InitCascade /\ [][NextCascade]_vars

\* C17: the step that ends a DeleteCategoryWithCascade with success, no
\* other call running meanwhile, leaves the collections the call found when
\* it began less the Category, the Events whose category name equals the
\* Category's name, and the Bookings that referenced those Events; all other
\* documents are as they were.
C17_CascadeDeletes ==
    [][\A c \in Clients :
        (/\ calls[c].op = "DeleteCategoryWithCascade"
         /\ calls'[c].pc = "done" /\ calls'[c].status = StatusOK)
        => LET before == calls[c].pre
               id == ObjectIDFromHex(calls[c].reqCategory).id
               gone == {e \in DOMAIN before.events :
                           before.events[e].CategoryName = before.categories[id].Name}
               orphaned == {b \in DOMAIN before.bookings :
                               before.bookings[b].EventID \in gone}
           IN  /\ id \in DOMAIN before.categories
               /\ categories' = [k \in DOMAIN before.categories \ {id} |->
                                    before.categories[k]]
               /\ events' = [e \in DOMAIN before.events \ gone |-> before.events[e]]
               /\ bookings' = [b \in DOMAIN before.bookings \ orphaned |->
                                  before.bookings[b]]]_vars

\* Scenario C: a cascade on a Category that had two Events, each with one
\* Booking, has returned success; an Event whose category name differs only
\* in case is still stored.
C17_Witness ==
    \E c \in Clients :
        /\ calls[c].op = "DeleteCategoryWithCascade" /\ calls[c].pc = "done"
        /\ calls[c].status = StatusOK
        /\ LET before == calls[c].pre
           IN  /\ Cardinality({e \in DOMAIN before.events :
                                  before.events[e].CategoryName = "Music"}) = 2
               /\ DOMAIN before.bookings = {1, 2}
               /\ before.bookings[1].EventID # before.bookings[2].EventID
               /\ \A b \in {1, 2} :
                     before.events[before.bookings[b].EventID].CategoryName = "Music"
               /\ 1 \notin DOMAIN categories
               /\ bookings = <<>>
               /\ \E e \in DOMAIN events : events[e].CategoryName = "music"

\* C19: a DeleteEvent or DeleteCategoryWithCascade call that meets no failing
\* store operation ends with success, also when it is made again after an
\* earlier run has deleted some or all of the rows.
C19_RerunSucceeds ==
    [][\A c \in Clients :
        (/\ calls'[c].pc = "done" /\ calls[c].pc # "done"
         /\ Stepping(c) \in {"DeleteEvent", "DeleteCategoryWithCascade"}
         /\ ~CascadeFault(c)
         /\ ~DeleteEvent_BookingsFail(c)
         /\ ~DeleteEvent_EventFail(c))
        => calls'[c].err = ErrNone]_vars

(***************************************************************************)
(* SpecSweep: the cleanup goroutine's sweep at startup while a user books. *)
(* Event 1 ended an hour ago, event 2 ends in an hour.                     *)
(***************************************************************************)
InitSweep ==
    \E n \in 0..(MaxBookings - 1) :
        \E where \in [1..n -> 1..2] :
            /\ events = (1 :> Event("Music", 1,
                                <<TicketInfo("VIP", PriceOf.VIP, MaxQty,
                                             MaxQty - BookedOn(where, 1))>>))
                        @@ (2 :> Event("Music", 3,
                                <<TicketInfo("VIP", PriceOf.VIP, MaxQty,
                                             MaxQty - BookedOn(where, 2))>>))
            /\ bookings = BookingsOn(where)
            /\ categories = TwoCategories
            /\ nextBookingID = n + 1
            /\ nextEventID = 3
            /\ now = 2
            /\ calls = [c \in Clients |-> IdleCall]
            /\ lastBooked = NoneBooked
            /\ reaper = ReaperAtStart

NextSweep ==
    \/ Reaper_RunCleanup
    \/ DeleteExpired_Find
    \/ DeleteExpired_Bookings
    \/ DeleteExpired_Events
    \/ DeleteExpired_Fault
    \/ \E e \in 1..2 : HandleCreateBooking(1, 1, Hex(e), "VIP", 1)
    \/ CreateBooking_FindEvent(1)
    \/ CreateBooking_InsertOne(1)
    \/ CreateBooking_UpdateOne(1)
    \/ CommitTransaction(1)
    \/ StoreFault(1)

SpecSweep == InitSweep /\ [][NextSweep]_vars

\* C18: the step that ends a DeleteExpiredEvents without error removes
\* exactly the Events whose end time is before the sweep's time and returns
\* their number, no Booking of a removed Event is left, and no step of the
\* sweep removes a Booking of an Event that has not ended.
C18_SweepRemovesExpired ==
    [][/\ (reaper.pc = "sweepEvents" /\ reaper'.pc = "waiting"
           /\ reaper'.err = ErrNone)
          => LET gone == {e \in DOMAIN events : events[e].EndTime < reaper.cutoff}
             IN  /\ events' = [e \in DOMAIN events \ gone |-> events[e]]
                 /\ reaper'.count = Cardinality(gone)
                 /\ \A b \in DOMAIN bookings' : bookings'[b].EventID \notin gone
       /\ reaper' # reaper
          => \A b \in DOMAIN bookings \ DOMAIN bookings' :
                \/ bookings[b].EventID \notin DOMAIN events
                \/ events[bookings[b].EventID].EndTime < reaper.cutoff]_vars

(***************************************************************************)
(* SpecReaper: the cleanup goroutine and its ticker over the hours, with   *)
(* events that end at hours 1 and 2.  The goroutine is scheduled and every *)
(* store operation of a sweep returns, with a result or with an error:     *)
(* the goroutine's next step is taken (weak fairness).  Nothing is assumed *)
(* of the ticker.                                                          *)
(***************************************************************************)
InitReaper ==
    \E n \in 0..MaxBookings :
        \E where \in [1..n -> 1..2] :
            /\ events = (1 :> Event("Music", 1,
                                <<TicketInfo("VIP", PriceOf.VIP, MaxQty,
                                             MaxQty - BookedOn(where, 1))>>))
                        @@ (2 :> Event("Music", 2,
                                <<TicketInfo("VIP", PriceOf.VIP, MaxQty,
                                             MaxQty - BookedOn(where, 2))>>))
            /\ bookings = BookingsOn(where)
            /\ categories = TwoCategories
            /\ nextBookingID = n + 1
            /\ nextEventID = 3
            /\ now = 1
            /\ calls = [c \in Clients |-> IdleCall]
            /\ lastBooked = NoneBooked
            /\ reaper = ReaperAtStart

ReaperStep ==
    \/ Reaper_RunCleanup
    \/ DeleteExpired_Find
    \/ DeleteExpired_Bookings
    \/ DeleteExpired_Events
    \/ DeleteExpired_Fault

NextReaper ==
    \/ Ticker_Tick
    \/ ReaperStep

SpecReaper == InitReaper /\ [][NextReaper]_vars /\ WF_vars(ReaperStep)

\* C20: the goroutine begins its first sweep at startup without a tick, and
\* from then on the sweeps begun are that one and one for every tick taken
\* from the ticker's channel; every tick the ticker has sent is followed by
\* its sweep, whether earlier sweeps returned errors or not.
C20_SweepPerTick ==
    /\ [](reaper.sweeps = 0 <=> reaper.pc = "startup")
    /\ [](reaper.pc # "startup"
            => reaper.sweeps = 1 + reaper.ticks - reaper.pending)
    /\ (reaper.pc = "startup") ~> (reaper.sweeps = 1)
    /\ \A n \in 1..MaxTime : (reaper.ticks = n) ~> (reaper.sweeps = n + 1)

\* After a sweep that returned an error, the sweep of the second tick has
\* run and has removed an expired Event.
C20_Witness ==
    /\ reaper.failed >= 1
    /\ reaper.ticks = 2 /\ reaper.sweeps = 3
    /\ reaper.pc = "waiting"
    /\ reaper.err = ErrNone /\ reaper.count >= 1

\* C21: a sweep that fails while deleting the Bookings of an expired Event
\* returns an error with the count 0 and changes nothing at that step; Events
\* are deleted only by the last step of a sweep that returns no error; a
\* Booking once deleted is never stored again; and the sweep of the next tick
\* begins and finds every expired Event that is still present.
C21_SweepFailure ==
    /\ [][/\ (reaper.pc = "sweepBookings" /\ reaper'.pc = "waiting")
             => /\ reaper'.err # ErrNone
                /\ reaper'.count = 0
                /\ events' = events
                /\ bookings' = bookings
          /\ events' # events
             => /\ reaper.pc = "sweepEvents"
                /\ reaper'.pc = "waiting"
                /\ reaper'.err = ErrNone
          /\ \A b \in DOMAIN bookings' :
                b \in DOMAIN bookings /\ bookings'[b] = bookings[b]
          /\ (reaper.pc = "find" /\ reaper'.pc \in {"sweepBookings", "sweepEvents"})
             => {reaper'.todo[i] : i \in 1..Len(reaper'.todo)}
                  = {e \in DOMAIN events : events[e].EndTime < reaper.cutoff}]_vars
    /\ (reaper.pc = "waiting" /\ reaper.err = ErrDeleteBookings
        /\ reaper.pending = 1)
         ~> (reaper.pc = "find")

\* The first sweep found both Events expired, deleted the Booking of Event 1
\* and failed at the Bookings of Event 2: both Events and the Booking of
\* Event 2 are still stored.
C21_Witness ==
    /\ reaper.pc = "waiting"
    /\ reaper.sweeps = 1 /\ reaper.failed = 1
    /\ reaper.err = ErrDeleteBookings /\ reaper.count = 0
    /\ DOMAIN events = {1, 2}
    /\ \A e \in {1, 2} : events[e].EndTime < now
    /\ nextBookingID = 3
    /\ Cardinality(DOMAIN bookings) = 1
    /\ \A b \in DOMAIN bookings : bookings[b].EventID = 2

(***************************************************************************)
(* SpecOwner: two users, each behind a client of their own, book single    *)
(* VIP tickets of one event and ask to cancel any booking, their own or    *)
(* the other's.                                                            *)
(***************************************************************************)
InitOwner == InitWith(<<TicketInfo("VIP", PriceOf.VIP, MaxQty, MaxQty)>>)

NextOwner ==
    \E c \in Bookers :
        \/ HandleCreateBooking(c, c, Hex(1), "VIP", 1)
        \/ CreateBooking_FindEvent(c)
        \/ CreateBooking_InsertOne(c)
        \/ CreateBooking_UpdateOne(c)
        \/ \E b \in 1..MaxBookings : HandleCancelBooking(c, c, Hex(b))
        \/ CancelBooking_Find(c)
        \/ CancelBooking_UpdateOne(c)
        \/ CancelBooking_DeleteOne(c)
        \/ CommitTransaction(c)
        \/ StoreFault(c)

SpecOwner == InitOwner /\ [][NextOwner]_vars

\* C22: the handler passes a cancellation on to the store's CancelBooking
\* only when the Booking it read belongs to the requesting user; the answer
\* Forbidden is given by the handler's own step and changes neither Bookings
\* nor Events; and a Booking leaves the collection only by the commit of a
\* cancellation whose requesting user is the Booking's user.
C22_OnlyOwnerCancels ==
    [][/\ \A c \in Clients :
            /\ (Ready(c) /\ calls'[c].op = "CancelBooking"
                /\ calls'[c].pc = "find")
               => /\ calls'[c].booking.ID \in DOMAIN bookings
                  /\ bookings[calls'[c].booking.ID].UserID = calls'[c].user
            /\ (calls'[c] # calls[c] /\ calls'[c].op = "CancelBooking"
                /\ calls'[c].status = StatusForbidden)
               => /\ Ready(c)
                  /\ bookings' = bookings
                  /\ events' = events
       /\ \A b \in DOMAIN bookings \ DOMAIN bookings' :
            \E c \in Clients :
                /\ calls[c].op = "CancelBooking"
                /\ calls[c].pc = "commit"
                /\ calls'[c].pc = "done"
                /\ calls[c].wDel = b
                /\ calls[c].user = bookings[b].UserID]_vars

\* A user's request to cancel was answered Forbidden while the only Booking
\* stored is another user's; all tickets it holds are still taken.
C22_Witness ==
    \E c \in Clients :
        /\ calls[c].op = "CancelBooking" /\ calls[c].pc = "done"
        /\ calls[c].status = StatusForbidden
        /\ DOMAIN bookings = {1}
        /\ bookings[1].UserID # c
        /\ Available(events, 1, 1) = MaxQty - 1

(***************************************************************************)
(* SpecRead: the first client reads bookings, as either user or with no    *)
(* token, while the second cancels bookings of two events.                 *)
(***************************************************************************)
InitRead ==
    \E n \in 0..MaxBookings :
        \E where \in [1..n -> 1..2], who \in [1..n -> Users] :
            /\ events = (1 :> EventWith("Music", BookedOn(where, 1)))
                        @@ (2 :> EventWith("Music", BookedOn(where, 2)))
            /\ bookings = [b \in 1..n |->
                             Booking(b, who[b], where[b], "VIP", 1, PriceOf.VIP,
                                     "confirmed")]
            /\ categories = TwoCategories
            /\ nextBookingID = n + 1
            /\ nextEventID = 3
            /\ now = 1
            /\ calls = [c \in Clients |-> IdleCall]
            /\ lastBooked = NoneBooked
            /\ reaper = ReaperAtStart

NextRead ==
    \/ \E u \in Users \cup {0} : HandleGetUserBookings(1, u)
    \/ \E u \in Users \cup {0} : HandleGetAllBookings(1, u)
    \/ \E e \in 1..3 : CallGetBookingsByEventID(1, e)
    \/ GetBookings_Find(1)
    \/ GetBookings_Fault(1)
    \/ \E u \in Users, b \in 1..MaxBookings : HandleCancelBooking(2, u, Hex(b))
    \/ CancelBooking_Find(2)
    \/ CancelBooking_UpdateOne(2)
    \/ CancelBooking_DeleteOne(2)
    \/ CommitTransaction(2)

SpecRead == InitRead /\ [][NextRead]_vars

\* The users the operator of the service regards as administrators.
Admins == {2}

\* C23: GetAllBookings answers with the bookings only when the authenticated
\* identity of the request is an administrator.
C23_AdminOnly ==
    \A c \in Clients :
        (/\ calls[c].op = "GetAllBookings" /\ calls[c].pc = "done"
         /\ calls[c].status = StatusOK)
        => calls[c].user \in Admins

\* The three reads.
BookingReads == {"GetBookingsByUserID", "GetBookingsByEventID", "GetAllBookings"}

\* C27: no step of a read of bookings changes a collection; a read that met
\* no failing store operation returns no error and a slice that is not nil,
\* holding exactly the Bookings its filter matches, and so an empty one
\* when none matches.
C27_PureReads ==
    [][\A c \in Clients :
        (calls'[c] # calls[c] /\ calls'[c].op \in BookingReads)
        => /\ events' = events
           /\ bookings' = bookings
           /\ categories' = categories
           /\ (calls[c].pc = "findBookings" /\ ~GetBookings_Fault(c))
              => LET wanted ==
                       {b \in DOMAIN bookings :
                           \/ calls[c].op = "GetAllBookings"
                           \/ /\ calls[c].op = "GetBookingsByUserID"
                              /\ bookings[b].UserID = calls[c].user
                           \/ /\ calls[c].op = "GetBookingsByEventID"
                              /\ Hex(bookings[b].EventID) = calls[c].reqEvent}
                     got == calls'[c].result
                 IN  /\ calls'[c].err = ErrNone
                     /\ ~got.isNil
                     /\ Len(got.items) = Cardinality(wanted)
                     /\ {got.items[i].ID : i \in 1..Len(got.items)} = wanted
                     /\ \A i \in 1..Len(got.items) :
                           got.items[i] = bookings[got.items[i].ID]]_vars

\* GetBookingsByEventID has returned an empty slice without error for an
\* event that no stored Booking references, while Bookings are stored.
C27_Witness ==
    /\ calls[1].pc = "done" /\ calls[1].op = "GetBookingsByEventID"
    /\ calls[1].err = ErrNone
    /\ calls[1].result = Slice(<<>>)
    /\ bookings # <<>>

\* C24: no CreateBooking or CancelBooking call runs its transaction body a
\* second time: a call whose attempt was aborted ends with a failure.
C24_NoAutomaticRetry ==
    /\ [](\A c \in Clients : ~calls[c].rerun)
    /\ [][\A c \in Clients :
            (StoreStep(c, "CreateBooking") \/ StoreStep(c, "CancelBooking"))
            => calls'[c].pc # "find"]_vars

\* C25: two CreateBooking requests that failed in the store for different
\* causes (event not found, ticket type not found, not enough tickets, a
\* store failure) are answered differently.  The handler's answer to a store
\* error is the status alone: its message is the same for every cause.
C25_DistinguishableCauses ==
    \A c, d \in Clients :
        (/\ calls[c].op = "CreateBooking" /\ calls[c].pc = "done"
         /\ calls[d].op = "CreateBooking" /\ calls[d].pc = "done"
         /\ calls[c].err # ErrNone /\ calls[d].err # ErrNone
         /\ calls[c].err # calls[d].err)
        => calls[c].status # calls[d].status

(***************************************************************************)
(* SpecNames: categories are created by two clients at once and renamed    *)
(* by the second.                                                          *)
(***************************************************************************)
InitNames ==
    /\ InitWith(<<TicketInfo("VIP", PriceOf.VIP, MaxQty, MaxQty)>>)

NextNames ==
    \/ \E c \in Bookers, name \in {"Music", "Tech", "Jazz", ""} :
          HandleCreateCategory(c, name)
    \/ \E c \in Bookers : CreateCategory_FindOne(c)
    \/ \E c \in Bookers : CreateCategory_InsertOne(c)
    \/ \E id \in 1..MaxCategories, name \in {"Music", "Tech", ""} :
          HandleUpdateCategory(2, Hex(id), name)
    \/ HandleUpdateCategory(2, BadHex, "Tech")
    \/ UpdateCategory_UpdateOne(2)

SpecNames == InitNames /\ [][NextNames]_vars

\* C26: no two stored Categories have the same name.
C26_UniqueNames ==
    \A j, k \in DOMAIN categories :
        j # k => categories[j].Name # categories[k].Name

(***************************************************************************)
(* SpecSlots: a user books and cancels single VIP tickets of an event that *)
(* has several ticket classes labelled VIP, while the host replaces the    *)
(* event's ticket list, also by one without a VIP class.                   *)
(***************************************************************************)
SlotChoices ==
    { <<TicketInfo("VIP", PriceOf.VIP, 1, 1),
        TicketInfo("VIP", PriceOf.VIP, MaxQty, MaxQty)>>,
      <<TicketInfo("Regular", PriceOf.Regular, 1, 1),
        TicketInfo("VIP", PriceOf.VIP, MaxQty, MaxQty),
        TicketInfo("VIP", PriceOf.VIP, 1, 1)>> }

InitSlots == \E t \in SlotChoices : InitWith(t)

SlotDocs ==
    {Event("Music", 2, t) :
        t \in SlotChoices \cup {<<TicketInfo("Regular", PriceOf.Regular, 1, 1)>>}}

NextSlots ==
    \/ HandleCreateBooking(1, 1, Hex(1), "VIP", 1)
    \/ CreateBooking_FindEvent(1)
    \/ CreateBooking_InsertOne(1)
    \/ CreateBooking_UpdateOne(1)
    \/ \E b \in 1..MaxBookings : HandleCancelBooking(1, 1, Hex(b))
    \/ CancelBooking_Find(1)
    \/ CancelBooking_UpdateOne(1)
    \/ CancelBooking_DeleteOne(1)
    \/ CommitTransaction(1)
    \/ StoreFault(1)
    \/ \E doc \in SlotDocs : HandleUpdateEvent(2, Hex(1), doc)
    \/ UpdateEvent_Store(2)

SpecSlots == InitSlots /\ [][NextSlots]_vars

\* C28: the commit of a CreateBooking takes the quantity from, and the commit
\* of a CancelBooking that found a ticket class of the Booking's type gives
\* it back to, the first ticket class in list order that has the type; every
\* other ticket class of the Event, of the same type or not, and every field
\* of that class but available, is as before.
C28_FirstSlotOnly ==
    [][\A c \in Clients :
        (/\ calls[c].op \in {"CreateBooking", "CancelBooking"}
         /\ calls[c].pc = "commit" /\ calls'[c].pc = "done"
         /\ calls'[c].err = ErrNone
         /\ calls[c].wSet # NoSet)
        => LET b == calls[c].booking
               tickets == events[b.EventID].Tickets
               first == CHOOSE i \in 1..Len(tickets) :
                           /\ tickets[i].Type = b.TicketType
                           /\ \A j \in 1..(i - 1) : tickets[j].Type # b.TicketType
               change == IF calls[c].op = "CreateBooking" THEN 0 - b.Quantity
                         ELSE b.Quantity
           IN  events' = [events EXCEPT ![b.EventID].Tickets[first].AvailableQuantity
                                           = @ + change]]_vars

\* A Booking of an Event whose first two ticket classes are both labelled
\* VIP has been made and then cancelled, with nothing else in between.
C28_Witness ==
    /\ lastBooked.id # NilObjectID /\ lastBooked.cancelled
    /\ 1 \in DOMAIN events
    /\ Len(events[1].Tickets) = 2
    /\ events[1].Tickets[1].Type = "VIP" /\ events[1].Tickets[2].Type = "VIP"
    /\ events[1] = lastBooked.before[1]

\* C29: the commit of a CancelBooking whose Event is stored but has no
\* ticket class of the Booking's type removes the Booking, returns success
\* and leaves the Events collection as it was.
C29_TypeGone ==
    [][\A c \in Clients :
        (/\ calls[c].op = "CancelBooking"
         /\ calls[c].pc \in {"find", "delete", "commit"}
         /\ calls'[c].pc = "done"
         /\ ~StoreFault(c)
         /\ calls[c].booking.ID \in DOMAIN bookings
         /\ LET b == bookings[calls[c].booking.ID]
            IN  /\ b.EventID \in DOMAIN events
                /\ \A i \in 1..Len(events[b.EventID].Tickets) :
                      events[b.EventID].Tickets[i].Type # b.TicketType)
        => /\ calls[c].pc = "commit"
           /\ calls'[c].err = ErrNone
           /\ calls'[c].status = StatusOK
           /\ calls[c].booking.ID \notin DOMAIN bookings'
           /\ events' = events]_vars

\* A VIP Booking was cancelled with success after the host had replaced the
\* Event's tickets by one Regular class, whose available is as the host set it.
C29_Witness ==
    /\ calls[1].op = "CancelBooking" /\ calls[1].pc = "done"
    /\ calls[1].status = StatusOK
    /\ nextBookingID = 2 /\ bookings = <<>>
    /\ 1 \in DOMAIN events
    /\ events[1].Tickets = <<TicketInfo("Regular", PriceOf.Regular, 1, 1)>>

\* C30: with one caller at a time, a DeleteCategoryWithCascade or DeleteEvent
\* that stops at a failing step changes nothing at that step and leaves what
\* its completed steps did: stopped at the deletion of the Events, every
\* Booking of the Category's Events is gone while all Events and the
\* Category are as the call found them; stopped at the deletion of the
\* Category, those Events are gone too and the Category is stored; a
\* DeleteEvent stopped at the deletion of the Event has removed the Event's
\* Bookings and not the Event.  No step ever stores a deleted document again.
C30_NoRollback ==
    [][/\ \A c \in Clients :
            (/\ calls[c].op \in {"DeleteCategoryWithCascade", "DeleteEvent"}
             /\ ~Ready(c)
             /\ calls'[c].pc = "done" /\ calls'[c].err # ErrNone)
            => LET before == calls[c].pre
                   cat == ObjectIDFromHex(calls[c].reqCategory).id
                   ev == ObjectIDFromHex(calls[c].reqEvent).id
                   owned == {e \in DOMAIN before.events :
                               /\ cat \in DOMAIN before.categories
                               /\ before.events[e].CategoryName
                                    = before.categories[cat].Name}
                   purged == {b \in DOMAIN before.bookings :
                                 before.bookings[b].EventID \in owned}
               IN  /\ events' = events
                   /\ bookings' = bookings
                   /\ categories' = categories
                   /\ calls[c].pc \in {"cascadeEvents", "cascadeCategory"}
                      => /\ bookings = [b \in DOMAIN before.bookings \ purged |->
                                           before.bookings[b]]
                         /\ categories = before.categories
                   /\ calls[c].pc = "cascadeEvents" => events = before.events
                   /\ calls[c].pc = "cascadeCategory"
                      => events = [e \in DOMAIN before.events \ owned |->
                                      before.events[e]]
                   /\ calls[c].pc = "deleteEvent"
                      => /\ \A b \in DOMAIN bookings : bookings[b].EventID # ev
                         /\ \A e \in DOMAIN before.events :
                               e \in DOMAIN events /\ events[e] = before.events[e]
       /\ \A b \in DOMAIN bookings' : b \in DOMAIN bookings
       /\ \A e \in DOMAIN events' : e \in DOMAIN events
       /\ \A k \in DOMAIN categories' : k \in DOMAIN categories]_vars

\* A cascade on the Category "Music" has stopped with "failed to delete
\* events": the two Bookings of its Events are gone, its Events and the
\* Category are stored.
C30_Witness ==
    \E c \in Clients :
        /\ calls[c].op = "DeleteCategoryWithCascade" /\ calls[c].pc = "done"
        /\ calls[c].err = ErrDeleteEvents
        /\ DOMAIN calls[c].pre.bookings = {1, 2}
        /\ bookings = <<>>
        /\ events = calls[c].pre.events
        /\ \A b \in {1, 2} :
              events[calls[c].pre.bookings[b].EventID].CategoryName = "Music"
        /\ 1 \in DOMAIN categories /\ categories[1].Name = "Music"

(***************************************************************************)
(* SpecStock: two clients of one user book and cancel tickets of two       *)
(* events whose ticket classes have distinct type labels and start with    *)
(* available = total; a store operation may fail.  Both clients may cancel *)
(* the same Booking at the same time.                                      *)
(***************************************************************************)
InitStock ==
    /\ events = (1 :> Event("Music", 2,
                     <<TicketInfo("Regular", PriceOf.Regular, 1, 1),
                       TicketInfo("VIP", PriceOf.VIP, MaxQty, MaxQty)>>)) @@
                (2 :> Event("Music", 3,
                     <<TicketInfo("VIP", PriceOf.VIP, MaxQty, MaxQty)>>))
    /\ bookings = <<>>
    /\ categories = (1 :> [Name |-> "Music"])
    /\ nextBookingID = 1
    /\ nextEventID = 3
    /\ now = 1
    /\ calls = [c \in Clients |-> IdleCall]
    /\ lastBooked = NoneBooked
    /\ reaper = ReaperAtStart

NextStock ==
    \E c \in Bookers :
        \/ \E e \in 1..2, t \in {"VIP", "Regular"}, q \in {1, MaxQty} :
              HandleCreateBooking(c, 1, Hex(e), t, q)
        \/ CreateBooking_FindEvent(c)
        \/ CreateBooking_InsertOne(c)
        \/ CreateBooking_UpdateOne(c)
        \/ \E b \in 1..MaxBookings : HandleCancelBooking(c, 1, Hex(b))
        \/ CancelBooking_Find(c)
        \/ CancelBooking_UpdateOne(c)
        \/ CancelBooking_DeleteOne(c)
        \/ CommitTransaction(c)
        \/ StoreFault(c)

SpecStock == InitStock /\ [][NextStock]_vars

\* The quantities of the stored Bookings of event e and the type of its
\* ticket class i, added up.
BookedQuantity(e, i) ==
    LET of == {b \in DOMAIN bookings :
                  /\ bookings[b].EventID = e
                  /\ bookings[b].TicketType = events[e].Tickets[i].Type}
    IN  SumOver([b \in of |-> bookings[b].Quantity], of)

\* C31: in every state reached by interleaved CreateBooking and
\* CancelBooking transactions on Events whose ticket classes have distinct
\* type labels and started with available = total, each class's available
\* quantity plus the quantities of the stored Bookings of that Event and
\* type equals the class's total quantity.
C31_InventoryConservation ==
    \A e \in DOMAIN events :
        \A i \in 1..Len(events[e].Tickets) :
            events[e].Tickets[i].AvailableQuantity + BookedQuantity(e, i)
                = events[e].Tickets[i].TotalQuantity

\* The first Booking has been cancelled and the second, of MaxQty VIP
\* tickets of event 1, is stored: that class is sold out, and no call is
\* under way.
C31_Witness ==
    /\ \A c \in Clients : Ready(c)
    /\ DOMAIN bookings = {2}
    /\ bookings[2].EventID = 1 /\ bookings[2].Quantity = MaxQty
    /\ events[1].Tickets[2].AvailableQuantity = 0
    /\ \E c \in Clients : /\ calls[c].op = "CancelBooking"
                           /\ calls[c].pc = "done" /\ calls[c].err = ErrNone
                           /\ calls[c].status = StatusOK

\* C32: of two CancelBooking calls on one booking id that are under way
\* together, at most one answers success.  The commit of a cancellation
\* removes a Booking that is stored and adds its quantity to the first
\* ticket class of its type, once; only the commit of a CreateBooking adds
\* a Booking; and a
\* cancellation that ends with an error ("booking not found" from its
\* re-run, or a failed transaction) leaves Bookings and Events as they were.
C32_RestoredOnce ==
    /\ [](\A c, d \in Clients :
            (/\ c # d
             /\ calls[c].op = "CancelBooking" /\ calls[d].op = "CancelBooking"
             /\ calls[c].pc = "done" /\ calls[d].pc = "done"
             /\ calls[c].booking.ID = calls[d].booking.ID
             /\ calls[c].status = StatusOK)
            => calls[d].status # StatusOK)
    /\ [][/\ \A c \in Clients :
              /\ (/\ calls[c].op = "CancelBooking"
                  /\ calls[c].pc = "commit" /\ calls'[c].pc = "done")
                 => LET b == calls[c].booking
                        tickets == events[b.EventID].Tickets
                        i == FirstMatch(tickets, b.TicketType)
                    IN  /\ calls'[c].status = StatusOK
                        /\ b.ID \in DOMAIN bookings /\ bookings[b.ID] = b
                        /\ bookings' = Remove(bookings, {b.ID})
                        /\ i # 0
                        /\ events' = [events EXCEPT
                              ![b.EventID].Tickets[i].AvailableQuantity
                                  = @ + b.Quantity]
              /\ (/\ calls[c].op = "CancelBooking"
                  /\ calls[c].pc # "done" /\ calls'[c].pc = "done"
                  /\ calls'[c].status # StatusOK)
                 => /\ bookings' = bookings /\ events' = events
                    /\ calls[c].pc \in TxnPcs
                       => calls'[c].err \in {ErrBookingNotFound, ErrInternal}
          /\ \A b \in DOMAIN bookings' \ DOMAIN bookings :
                \E c \in Clients : /\ calls[c].op = "CreateBooking"
                                   /\ calls[c].pc = "commit"
                                   /\ calls[c].wIns.ID = b]_vars

\* Two cancellations of Booking 1 were under way together: one removed it
\* and gave its ticket back, the other was re-run after the write conflict
\* and ended with "booking not found".
C32_Witness ==
    \E c, d \in Clients :
        /\ calls[c].op = "CancelBooking" /\ calls[d].op = "CancelBooking"
        /\ calls[c].pc = "done" /\ calls[d].pc = "done"
        /\ calls[c].booking.ID = 1 /\ calls[d].booking.ID = 1
        /\ calls[c].status = StatusOK /\ calls[c].err = ErrNone
        /\ calls[d].rerun /\ calls[d].err = ErrBookingNotFound
        /\ calls[d].status = StatusInternalServerError
        /\ 1 \notin DOMAIN bookings
        /\ \A e \in DOMAIN events : \A i \in 1..Len(events[e].Tickets) :
              events[e].Tickets[i].AvailableQuantity
                  = events[e].Tickets[i].TotalQuantity

(***************************************************************************)
(* SpecRace: a user books tickets while the cleanup goroutine sweeps the   *)
(* expired event 1 and a host deletes the category "Music" of both events  *)
(* with its cascade.  Every store operation succeeds.                      *)
(***************************************************************************)
NextRace ==
    \/ Reaper_RunCleanup
    \/ DeleteExpired_Find
    \/ DeleteExpired_Bookings
    \/ DeleteExpired_Events
    \/ \E e \in 1..2 : HandleCreateBooking(1, 1, Hex(e), "VIP", 1)
    \/ CreateBooking_FindEvent(1)
    \/ CreateBooking_InsertOne(1)
    \/ CreateBooking_UpdateOne(1)
    \/ CommitTransaction(1)
    \/ HandleDeleteCategory(2, Hex(1))
    \/ Cascade_GetCategoryByID(2)
    \/ Cascade_GetEventsByCategory(2)
    \/ Cascade_FindEvents(2)
    \/ Cascade_DeleteBookings(2)
    \/ Cascade_DeleteEvents(2)
    \/ Cascade_DeleteCategory(2)

SpecRace == InitSweep /\ [][NextRace]_vars

\* C33: no step of DeleteExpiredEvents or DeleteCategoryWithCascade that
\* removes Events leaves a Booking that references one of the Events it
\* removed.
C33_NoBookingLeftBehind ==
    [][\A e \in DOMAIN events \ DOMAIN events' :
          \A b \in DOMAIN bookings' : bookings'[b].EventID # e]_vars

\* C34: when no operation is in progress, the category name of every stored
\* Event is, by exact string equality (the comparison of the count and of
\* the cascade's filters), the name of a stored Category.
C34_EventHasCategory ==
    (\A c \in Clients : Ready(c))
        => \A e \in DOMAIN events :
              \E k \in DOMAIN categories :
                  categories[k].Name = events[e].CategoryName

\* C35: the commit of a successful CreateBooking or CancelBooking changes
\* nothing but the targeted Booking and the available quantity of the matched
\* ticket class of that Booking's Event: every other Booking, every other
\* Event, every other ticket class and every other field of the matched
\* class, and every Category, is as before.
C35_Frame ==
    [][\A c \in Clients :
        (/\ calls[c].op \in {"CreateBooking", "CancelBooking"}
         /\ calls[c].pc = "commit" /\ calls'[c].pc = "done"
         /\ calls'[c].err = ErrNone)
        => LET b == calls[c].booking
               i == FirstMatch(events[b.EventID].Tickets, b.TicketType)
           IN  /\ categories' = categories
               /\ \A x \in (DOMAIN bookings \cup DOMAIN bookings') \ {b.ID} :
                     /\ x \in DOMAIN bookings /\ x \in DOMAIN bookings'
                     /\ bookings'[x] = bookings[x]
               /\ DOMAIN events' = DOMAIN events
               /\ \A e \in DOMAIN events \ {b.EventID} : events'[e] = events[e]
               /\ i # 0
               /\ events'[b.EventID] =
                     [events[b.EventID] EXCEPT !.Tickets[i].AvailableQuantity =
                         events'[b.EventID].Tickets[i].AvailableQuantity]]_vars

\* Booking 2, of VIP tickets of event 1, has just been committed while
\* Booking 1 of event 2 is stored: event 1's Regular class, event 2 and
\* Booking 1 are what they were.
C35_Witness ==
    /\ DOMAIN bookings = {1, 2}
    /\ bookings[1].EventID = 2 /\ bookings[2].EventID = 1
    /\ bookings[2].TicketType = "VIP"
    /\ \E c \in Clients : /\ calls[c].op = "CreateBooking" /\ calls[c].pc = "done"
                           /\ calls[c].status = StatusCreated
                           /\ calls[c].booking = bookings[2]
    /\ events[1].Tickets[1].AvailableQuantity = events[1].Tickets[1].TotalQuantity
    /\ events[2].Tickets[1].AvailableQuantity
          = events[2].Tickets[1].TotalQuantity - bookings[1].Quantity
    /\ events[1].Tickets[2].AvailableQuantity
          = events[1].Tickets[2].TotalQuantity - bookings[2].Quantity

\* The positions of the goroutine inside DeleteExpiredEvents.
SweepPcs == {"find", "sweepBookings", "sweepEvents"}

\* C36: a sweep of the cleanup goroutine starts only when none is in
\* progress: the first starts at startup, every later one when the
\* goroutine, back from the sweep before, takes a tick from the channel; a
\* tick that arrives during a sweep waits in the channel until that sweep has
\* returned.
C36_NoOverlap ==
    /\ [](reaper.pc = "startup" <=> reaper.sweeps = 0)
    /\ [][/\ reaper'.sweeps # reaper.sweeps
             => /\ reaper'.sweeps = reaper.sweeps + 1
                /\ reaper.pc \notin SweepPcs
                /\ reaper'.pc \in SweepPcs
                /\ reaper.sweeps >= 1
                   => /\ reaper.pc = "waiting"
                      /\ reaper.pending = 1 /\ reaper'.pending = 0
          /\ (reaper.pc \in SweepPcs /\ reaper'.pc \in SweepPcs)
             => reaper'.sweeps = reaper.sweeps
          /\ (reaper.pc \in SweepPcs /\ reaper'.pending # reaper.pending)
             => reaper'.pending = 1 /\ reaper'.pc = reaper.pc]_vars

\* The first tick has arrived while the startup sweep is deleting bookings:
\* it waits in the channel.
C36_Witness ==
    /\ reaper.pc = "sweepBookings"
    /\ reaper.sweeps = 1
    /\ reaper.pending = 1 /\ reaper.ticks = 1

(***************************************************************************)
(* SpecHours: the cleanup goroutine and its ticker over the hours while a  *)
(* user books tickets.  Event 1 ended an hour ago, event 2 ends in an      *)
(* hour.  Every store operation succeeds.  The ticker ticks, the goroutine *)
(* is scheduled and its store operations return, and a booking             *)
(* transaction that has begun runs to its end (weak fairness of each).     *)
(***************************************************************************)
SweepStep ==
    \/ Reaper_RunCleanup
    \/ DeleteExpired_Find
    \/ DeleteExpired_Bookings
    \/ DeleteExpired_Events

BookingStep ==
    \/ CreateBooking_FindEvent(1)
    \/ CreateBooking_InsertOne(1)
    \/ CreateBooking_UpdateOne(1)
    \/ CommitTransaction(1)

NextHours ==
    \/ Ticker_Tick
    \/ SweepStep
    \/ \E e \in 1..2 : HandleCreateBooking(1, 1, Hex(e), "VIP", 1)
    \/ BookingStep

SpecHours ==
    /\ InitSweep /\ [][NextHours]_vars
    /\ WF_vars(Ticker_Tick) /\ WF_vars(SweepStep) /\ WF_vars(BookingStep)

C38_MissingEvent ==
    [][\A c \in Clients :
        (/\ calls[c].op = "DeleteEvent"
         /\ calls[c].pc \in {"deleteBookings", "deleteEvent"}
         /\ calls'[c].pc # calls[c].pc
         /\ calls[c].pre.events = <<>>)
        => LET id == ObjectIDFromHex(calls[c].reqEvent).id
           IN  /\ events' = events
               /\ (calls[c].pc = "deleteBookings" /\ ~DeleteEvent_BookingsFail(c))
                  => /\ calls'[c].pc = "deleteEvent"
                     /\ bookings' = [b \in {x \in DOMAIN bookings :
                                               bookings[x].EventID # id}
                                        |-> bookings[b]]
               /\ (calls[c].pc = "deleteEvent" /\ ~DeleteEvent_EventFail(c))
                  => /\ calls'[c].pc = "done"
                     /\ calls'[c].err = ErrEventNotFound
                     /\ bookings' = bookings]_vars

\* DeleteEvent was called with the id of an Event already deleted, which a
\* Booking committed during that deletion still referenced: the Booking is
\* gone and the call has ended with "event not found".
C38_Witness ==
    \E c \in Clients :
        /\ calls[c].op = "DeleteEvent" /\ calls[c].pc = "done"
        /\ calls[c].err = ErrEventNotFound
        /\ calls[c].pre.events = <<>>
        /\ calls[c].pre.bookings # <<>>
        /\ \A b \in DOMAIN calls[c].pre.bookings : b \notin DOMAIN bookings
        /\ events = <<>>

====
